---------------------------- MODULE Spec2Model ----------------------------
(***************************************************************************)
(* Model of the deliberation core of higher-council:                       *)
(*   ai_council.py  AICouncilMember.generate, WebSearcher.search,          *)
(*                  AICouncil.deliberate / _needs_web_search /             *)
(*                  _judge_synthesize                                      *)
(*   ai_router.py   AIModel.generate, ProfileManager.execute_profile /     *)
(*                  toggle_search, QueryRouter.analyze_query /             *)
(*                  _fallback_routing, main                                *)
(*   ai_tui.py      AICouncilTUI.process_query                             *)
(* Every `await` on a network request is a suspension point: the request   *)
(* is put in `inflight` and a later action settles it with an outcome      *)
(* chosen by the environment.  Texts are sequences of segments; a query is *)
(* a sequence of characters so that lower() and the `in` substring test of *)
(* the keyword lexicons are computed, not assumed.                         *)
(***************************************************************************)
EXTENDS Integers, Sequences, FiniteSets, TLC

(* ------------------------------ bounds --------------------------------- *)
\* largest member list handed to AICouncil(...) by a direct caller
MaxMembers == 2

(* ------------------------- text primitives ----------------------------- *)
\* str.lower() on the letters that occur in the modelled queries
LowerMap ==
  [A |-> "a", B |-> "b", C |-> "c", D |-> "d", E |-> "e", F |-> "f",
   G |-> "g", H |-> "h", I |-> "i", J |-> "j", K |-> "k", L |-> "l",
   M |-> "m", N |-> "n", O |-> "o", P |-> "p", Q |-> "q", R |-> "r",
   S |-> "s", T |-> "t", U |-> "u", V |-> "v", W |-> "w", X |-> "x",
   Y |-> "y", Z |-> "z"]

LowerChar(c) == IF c \in DOMAIN LowerMap THEN LowerMap[c] ELSE c

Lower(s) == [k \in 1..Len(s) |-> LowerChar(s[k])]

\* Python `kw in s` on strings
IsSubstring(kw, s) ==
  \E k \in 1..(Len(s) - Len(kw) + 1) : SubSeq(s, k, k + Len(kw) - 1) = kw

\* variant: a council lexicon without the temporal words
CouncilKeywords_short ==
  { <<"w","e","a","t","h","e","r">>, <<"p","r","i","c","e">>,
    <<"c","o","s","t">>, <<"s","t","o","c","k">> }

\* the keyword list of AICouncil._needs_web_search
CouncilKeywords ==
  { <<"c","u","r","r","e","n","t">>, <<"l","a","t","e","s","t">>,
    <<"r","e","c","e","n","t">>, <<"t","o","d","a","y">>,
    <<"n","e","w","s">>, <<"w","e","a","t","h","e","r">>,
    <<"2","0","2","4">>, <<"2","0","2","5">>, <<"n","o","w">>,
    <<"p","r","i","c","e">>, <<"c","o","s","t">>,
    <<"h","o","w"," ","m","u","c","h">>, <<"p","a","y">>,
    <<"s","t","o","c","k">>, <<"w","h","o"," ","w","o","n">>,
    <<"w","h","a","t"," ","h","a","p","p","e","n","e","d">>,
    <<"t","h","i","s"," ","w","e","e","k">>,
    <<"t","h","i","s"," ","m","o","n","t","h">> }

\* the keyword list inside AICouncilMember.generate
MemberKeywords ==
  { <<"c","u","r","r","e","n","t">>, <<"l","a","t","e","s","t">>,
    <<"r","e","c","e","n","t">>, <<"t","o","d","a","y">>,
    <<"n","o","w">>, <<"2","0","2","4">>, <<"2","0","2","5">> }

_needs_web_search(query) ==
  \E k \in CouncilKeywords : IsSubstring(k, Lower(query))

needs_search_of(prompt) ==
  \E k \in MemberKeywords : IsSubstring(k, Lower(prompt))

\* the queries submitted by callers
QueryPython == <<"W","h","a","t"," ","i","s"," ","P","y","t","h","o","n","?">>
QueryLatest == <<"L","a","t","e","s","t"," ","A","I"," ","n","e","w","s">>
QueryPrice  == <<"s","t","o","c","k"," ","P","R","I","C","E">>
Queries == {QueryPython, QueryLatest, QueryPrice}

\* str.startswith on segmented text: the first segment is the prefix
StartsWith(text, prefix) == Len(text) > 0 /\ text[1] = prefix

(* ------------------------- external services --------------------------- *)
\* what the Brave endpoint can do with one GET
SearchOutcomes == {"results", "noresults", "http", "exception"}

\* what the Ollama endpoint can do with one POST
InferenceOutcomes == {"ok", "empty", "http", "exception"}

\* WebSearcher.search, the part after the GET has settled
search_return(outcome) ==
  CASE outcome = "http"      -> <<"Search error", ": HTTP 500">>
    [] outcome = "exception" -> <<"Search error", ": timeout">>
    [] outcome = "noresults" -> <<"No results found">>
    [] OTHER                 -> <<"1. title", "description", "URL: url">>

\* WebSearcher.search when brave_api_key is falsy: no request is made
NotConfiguredText == <<"Web search not configured">>


(* ----------------------------- configuration --------------------------- *)
\* names of configured agents; a council uses a prefix of this list
AllNames == <<"Sage", "Scholar", "Engineer", "Oracle", "Critic">>

JudgeName == "Judge"

\* text the model behind an agent generates when its call succeeds
ModelText ==
  [Sage |-> "Paris", Scholar |-> "Lyon", Engineer |-> "Paris, France",
   Oracle |-> "Paris (France)", Critic |-> "It is Paris",
   Judge |-> "The capital of France is Paris.",
   QuickAnswer |-> "Paris", CodeExpert |-> "print('Paris')",
   Creator |-> "O Paris"]

\* AICouncilMember(name, model, specialty, web_searcher=...); web_searcher
\* is "none" (None), "nokey" (WebSearcher()) or "key" (WebSearcher(key))
AICouncilMember(name, ws) == [name |-> name, web_searcher |-> ws]

\* AICouncil(members, judge, web_searcher)
AICouncil(members, judge, ws) ==
  [members |-> members, judge |-> judge, web_searcher |-> ws]

\* the councils a direct caller of AICouncil can construct
DirectCouncils ==
  UNION { UNION { { AICouncil([m \in 1..n |->
                                AICouncilMember(AllNames[m], mws[m])],
                              AICouncilMember(JudgeName, gw), cws) :
                      cws \in {"none", gw}, mws \in [1..n -> {"none", gw}] } :
                  gw \in {"nokey", "key"} } :
          n \in 1..MaxMembers }

\* variant: CURRENT registered without force_search
profiles_no_force ==
  [SIMPLE   |-> [type |-> "single", model |-> "QuickAnswer",
                 system_prompt |-> <<>>, force_search |-> FALSE],
   CODE     |-> [type |-> "single", model |-> "CodeExpert",
                 system_prompt |-> <<"You are an expert programmer.">>,
                 force_search |-> FALSE],
   CREATIVE |-> [type |-> "single", model |-> "Creator",
                 system_prompt |-> <<"You are a creative writer.">>,
                 force_search |-> FALSE],
   RESEARCH |-> [type |-> "council", model |-> "",
                 system_prompt |-> <<>>, force_search |-> FALSE],
   CURRENT  |-> [type |-> "council", model |-> "",
                 system_prompt |-> <<>>, force_search |-> FALSE]]

\* ProfileManager._setup_profiles
profiles ==
  [SIMPLE   |-> [type |-> "single", model |-> "QuickAnswer",
                 system_prompt |-> <<>>, force_search |-> FALSE],
   CODE     |-> [type |-> "single", model |-> "CodeExpert",
                 system_prompt |-> <<"You are an expert programmer.">>,
                 force_search |-> FALSE],
   CREATIVE |-> [type |-> "single", model |-> "Creator",
                 system_prompt |-> <<"You are a creative writer.">>,
                 force_search |-> FALSE],
   RESEARCH |-> [type |-> "council", model |-> "",
                 system_prompt |-> <<>>, force_search |-> FALSE],
   CURRENT  |-> [type |-> "council", model |-> "",
                 system_prompt |-> <<>>, force_search |-> TRUE]]

\* profile names a caller can pass, one of them not registered
ProfileNames == DOMAIN profiles \cup {"BOGUS"}

\* the council execute_profile builds for a council profile
RouterCouncil(ws) ==
  AICouncil(<<AICouncilMember("Sage", ws), AICouncilMember("Scholar", ws),
              AICouncilMember("Engineer", ws)>>,
            AICouncilMember(JudgeName, ws), ws)

(* ------------------------------- state --------------------------------- *)
VARIABLES
  enable_search,   \* ProfileManager.enable_search
  cfg,             \* the AICouncil built by ai_council.main
  program,         \* the running program: "council" (ai_council.main,
                   \* which holds cfg) or "router" (ProfileManager)
  pc,              \* position of the call in progress
  council,         \* the AICouncil of the call in progress
  args,            \* deliberate's arguments: query, use_search, force_search
  xargs,           \* execute_profile's profile_name, query and needs_search
  search_context,  \* deliberate's local search_context
  responses,       \* deliberate's local responses
  g,               \* the activation of generate in progress
  inflight,        \* network requests awaiting their reply
  log,             \* calls made and requests issued by the call in progress
  replies,         \* what the services answered to the settled requests
  final_result,    \* what deliberate returned
  exec_result,     \* what execute_profile returned
  current_profile, \* the profile the front end was asked for ("" when
                   \* no front end is involved in the call)
  analysis,        \* analyze_query's locals: query, outcome, result
  routing,         \* the dict analyze_query returned
  clog,            \* requests issued by analyze_query
  search_enabled,  \* AICouncilTUI.search_enabled
  config,          \* the entry search.enabled of the configuration file
  toggled_off,     \* history: some toggle has switched search off
  current_chat,    \* AICouncilTUI.current_chat
  files,           \* the chat files of chats_dir, by chat_id
  deleted,         \* history: the chat_ids the user deleted
  now,             \* the clock datetime.now() reads
  last_action      \* history: the front end's last chat handler

vars == <<enable_search, cfg, program, pc, council, args, xargs,
          search_context, responses, g, inflight, log, replies,
          final_result, exec_result, current_profile, analysis, routing,
          clog, search_enabled, config, toggled_off, current_chat, files,
          deleted, now, last_action>>

\* the state of the front end and of QueryRouter
rvars == <<current_profile, analysis, routing, clog>>

\* the search switch of the front end and its persisted value
tvars == <<search_enabled, config, toggled_off>>

\* the chat of the front end and the chat files
cvars == <<current_chat, files, deleted, now, last_action>>

\* the state only the front end holds
uvars == <<tvars, cvars>>

\* no chat is open: the program has no front end
NoChat == [cls |-> "None"]

\* a configuration file without the key search.enabled
NoConfig == [present |-> FALSE, value |-> FALSE]

\* the programs without a front end hold no chat and no configuration
NoFrontEnd ==
  /\ search_enabled = TRUE
  /\ config = NoConfig
  /\ toggled_off = FALSE
  /\ current_chat = NoChat
  /\ files = <<>>
  /\ deleted = {}
  /\ now = 1
  /\ last_action = "none"

Pending == [kind |-> "pending"]
None    == [kind |-> "None"]
NoGen   == [role |-> "none"]
NoArgs  == [query |-> <<>>, use_search |-> FALSE, force_search |-> FALSE]
NoXArgs == [profile_name |-> "", query |-> <<>>, needs_search |-> FALSE]
NoCouncil == AICouncil(<<>>, AICouncilMember(JudgeName, "none"), "none")
NoResult == [success |-> FALSE, response |-> <<>>]
NoAnalysis == [query |-> <<>>, outcome |-> "none", result |-> NoResult]
NoRouting == [kind |-> "None"]

\* a prompt handed to generate: a bare query, or the judge's instruction
\* wrapped around the query and the labelled responses
QueryPrompt(query) ==
  [template |-> "query", query |-> query, responses_text |-> <<>>]

Event(ev, by, context, prompt, allow_search) ==
  [ev |-> ev, by |-> by, context |-> context, prompt |-> prompt,
   allow_search |-> allow_search]

Request(svc, by) == [svc |-> svc, by |-> by]

Reply(svc, by, outcome) == [svc |-> svc, by |-> by, outcome |-> outcome]

Init ==
  /\ \/ /\ program = "council"
        /\ cfg \in DirectCouncils
        /\ enable_search = TRUE
     \/ /\ program = "router"
        /\ cfg = NoCouncil
        /\ enable_search \in BOOLEAN
  /\ pc = "idle"
  /\ council = NoCouncil
  /\ args = NoArgs
  /\ xargs = NoXArgs
  /\ search_context = <<>>
  /\ responses = <<>>
  /\ g = NoGen
  /\ inflight = {}
  /\ log = <<>>
  /\ replies = <<>>
  /\ final_result = Pending
  /\ exec_result = Pending
  /\ current_profile = ""
  /\ analysis = NoAnalysis
  /\ routing = NoRouting
  /\ clog = <<>>
  /\ NoFrontEnd

(* ---------------------- AICouncilMember.generate ----------------------- *)
\* context after a member's own search returned search_results
augmented_context(context, search_results) ==
  IF StartsWith(search_results, "Search error") THEN context
  ELSE IF context # <<>>
       THEN context \o <<"\n\nWeb Search Results:\n">> \o search_results
       ELSE <<"Web Search Results:\n">> \o search_results

\* search_performed after a member's own search returned search_results
performed_after(search_results) ==
  ~StartsWith(search_results, "Search error")

\* the keyword test of generate, applied to the prompt it was given
prompt_needs_search(prompt) == needs_search_of(prompt.query)

\* whether generate decides to search before calling the model
wants_search(who, prompt, allow_search) ==
  allow_search /\ who.web_searcher # "none" /\ prompt_needs_search(prompt)

\* the POST to /api/generate with full_prompt = context + prompt
PostEvent(who, context, prompt, allow_search) ==
  Event("post", who.name, context, prompt, allow_search)

\* generate from its entry to its first await
GenerateCall(role, who, prompt, context, allow_search, prefix) ==
  LET invoked == Event("generate", who.name, context, prompt, allow_search)
      searched == Event("search", who.name, <<>>, prompt, allow_search)
      get == Event("get", who.name, <<>>, prompt, allow_search)
      act == [role |-> role, who |-> who, prompt |-> prompt,
              context |-> context, search_performed |-> FALSE,
              allow_search |-> allow_search]
  IN IF wants_search(who, prompt, allow_search)
     THEN IF who.web_searcher = "key"
          THEN /\ g' = act
               /\ pc' = "gen_search"
               /\ inflight' = inflight \cup {Request("brave", who.name)}
               /\ log' = prefix \o <<invoked, searched, get>>
          ELSE LET ctx == augmented_context(context, NotConfiguredText)
               IN /\ g' = [act EXCEPT !.context = ctx,
                             !.search_performed =
                                performed_after(NotConfiguredText)]
                  /\ pc' = "gen_post"
                  /\ inflight' = inflight \cup {Request("ollama", who.name)}
                  /\ log' = prefix \o <<invoked, searched,
                              PostEvent(who, ctx, prompt, allow_search)>>
     ELSE /\ g' = act
          /\ pc' = "gen_post"
          /\ inflight' = inflight \cup {Request("ollama", who.name)}
          /\ log' = prefix \o <<invoked,
                      PostEvent(who, context, prompt, allow_search)>>

\* the dict generate returns once the POST has settled
generate_return(act, outcome) ==
  [member |-> act.who.name,
   response |-> CASE outcome = "http"      -> "HTTP Error 500"
                  [] outcome = "empty"     -> "Empty response"
                  [] outcome = "exception" -> "Error: timeout"
                  [] OTHER                 -> ModelText[act.who.name],
   success |-> (outcome = "ok"),
   used_search |-> act.search_performed]

(* ------------------------ AICouncil.deliberate ------------------------- *)
\* variant: the returned text is used without looking at its prefix
shared_context_unchecked(search_results) ==
  <<"Web Search Results:\n">> \o search_results \o <<"\n\n">>

\* search_context after the council-level search returned search_results
shared_context(search_results) ==
  IF StartsWith(search_results, "Search error") THEN <<>>
  ELSE <<"Web Search Results:\n">> \o search_results \o <<"\n\n">>

\* variant: the trigger looks at the lexicon only
should_search_of_keyword_only(query, use_search, force_search) ==
  use_search /\ _needs_web_search(query)

should_search_of(query, use_search, force_search) ==
  force_search \/ (use_search /\ _needs_web_search(query))

\* variant: the council-level search is started but not awaited
DeliberateCall_no_await(c, query, use_search, force_search) ==
  LET searched == Event("search", "council", <<>>, QueryPrompt(query),
                        use_search)
      get == Event("get", "council", <<>>, QueryPrompt(query), use_search)
  IN /\ council' = c
     /\ args' = [query |-> query, use_search |-> use_search,
                 force_search |-> force_search]
     /\ responses' = <<>>
     /\ replies' = <<>>
     /\ final_result' = Pending
     /\ g' = NoGen
     /\ pc' = "gather"
     /\ search_context' = <<>>
     /\ IF should_search_of(query, use_search, force_search)
           /\ c.web_searcher = "key"
        THEN /\ inflight' = {Request("brave", "council")}
             /\ log' = <<searched, get>>
        ELSE /\ inflight' = {}
             /\ log' = <<>>

\* deliberate from its entry to its first await
DeliberateCall(c, query, use_search, force_search) ==
  LET searched == Event("search", "council", <<>>, QueryPrompt(query),
                        use_search)
      get == Event("get", "council", <<>>, QueryPrompt(query), use_search)
  IN /\ council' = c
     /\ args' = [query |-> query, use_search |-> use_search,
                 force_search |-> force_search]
     /\ responses' = <<>>
     /\ replies' = <<>>
     /\ final_result' = Pending
     /\ g' = NoGen
     /\ IF should_search_of(query, use_search, force_search)
           /\ c.web_searcher # "none"
        THEN IF c.web_searcher = "key"
             THEN /\ pc' = "council_search"
                  /\ inflight' = {Request("brave", "council")}
                  /\ search_context' = <<>>
                  /\ log' = <<searched, get>>
             ELSE /\ pc' = "gather"
                  /\ inflight' = {}
                  /\ search_context' = shared_context(NotConfiguredText)
                  /\ log' = <<searched>>
        ELSE /\ pc' = "gather"
             /\ inflight' = {}
             /\ search_context' = <<>>
             /\ log' = <<>>

\* ai_council.main calls deliberate on its council
Deliberate(query, use_search, force_search) ==
  /\ UNCHANGED uvars
  /\ pc = "idle"
  /\ program = "council"
  /\ DeliberateCall(cfg, query, use_search, force_search)
  /\ UNCHANGED <<enable_search, cfg, program, xargs, exec_result>>
  /\ UNCHANGED rvars

\* the council-level GET settles; deliberate resumes at line 164
CouncilSearchSettle(outcome) ==
  /\ UNCHANGED uvars
  /\ pc = "council_search"
  /\ Request("brave", "council") \in inflight
  /\ inflight' = inflight \ {Request("brave", "council")}
  /\ search_context' = shared_context(search_return(outcome))
  /\ replies' = Append(replies, Reply("brave", "council", outcome))
  /\ pc' = "gather"
  /\ UNCHANGED <<enable_search, cfg, program, council, args, xargs,
                 responses, g, log, final_result, exec_result>>
  /\ UNCHANGED rvars

\* variant: the loop stops at the first successful member
members_left_until_success(resps, members) ==
  /\ Len(resps) < Len(members)
  /\ \A k \in 1..Len(resps) : ~resps[k].success

\* the loop `for member in self.members` has a member left to ask
members_left(resps, members) == Len(resps) < Len(members)

\* variant: results gathered newest first
collect_prepend(resps, response) == <<response>> \o resps

\* variant: a member whose call failed is asked once more
collect_retry_once(resps, response) ==
  IF /\ ~response.success
     /\ Cardinality({k \in 1..Len(log) :
                       log[k].ev = "generate"
                       /\ log[k].by = response.member}) < 2
  THEN resps
  ELSE Append(resps, response)

\* responses.append(response), line 173
collect(resps, response) == Append(resps, response)

\* one iteration of `for member in self.members`, up to generate's await
MemberGenerate ==
  /\ UNCHANGED uvars
  /\ pc = "gather"
  /\ members_left(responses, council.members)
  /\ GenerateCall("member", council.members[Len(responses) + 1],
                  QueryPrompt(args.query), search_context, args.use_search,
                  log)
  /\ UNCHANGED <<enable_search, cfg, program, council, args, xargs,
                 search_context, responses, replies, final_result,
                 exec_result>>
  /\ UNCHANGED rvars

\* a generate's own GET settles; generate resumes at line 31 and posts
GenerateSearchSettle(outcome) ==
  /\ UNCHANGED uvars
  /\ pc = "gen_search"
  /\ Request("brave", g.who.name) \in inflight
  /\ LET sr == search_return(outcome)
         ctx == augmented_context(g.context, sr)
     IN /\ g' = [g EXCEPT !.context = ctx,
                          !.search_performed = performed_after(sr)]
        /\ log' = Append(log, PostEvent(g.who, ctx, g.prompt, g.allow_search))
  /\ inflight' = (inflight \ {Request("brave", g.who.name)})
                    \cup {Request("ollama", g.who.name)}
  /\ replies' = Append(replies, Reply("brave", g.who.name, outcome))
  /\ pc' = "gen_post"
  /\ UNCHANGED <<enable_search, cfg, program, council, args, xargs,
                 search_context, responses, final_result, exec_result>>
  /\ UNCHANGED rvars

(* --------------------- AICouncil._judge_synthesize --------------------- *)
\* variant: no filtering on success
successful_of_all(resps) == resps

successful_of(resps) == SelectSeq(resps, LAMBDA r : r.success)

\* variant: blocks labelled by position in the configured member list
responses_text_by_position(successful) ==
  [idx \in 1..Len(successful) |->
     [idx |-> idx, member |-> AllNames[idx],
      response |-> successful[idx].response]]

\* responses_text inside judge_prompt: one labelled block per response
responses_text_of(successful) ==
  [idx \in 1..Len(successful) |->
     [idx |-> idx, member |-> successful[idx].member,
      response |-> successful[idx].response]]

judge_prompt_of(query, successful) ==
  [template |-> "judge", query |-> query,
   responses_text |-> responses_text_of(successful)]

\* variant: the fallback takes the last successful response
synthesis_of_last(query, resps, judge, judge_result) ==
  IF ~judge_result.success
  THEN [kind |-> "dict", query |-> query,
        final_answer |->
          successful_of(resps)[Len(successful_of(resps))].response,
        judge |-> "Fallback", all_responses |-> resps]
  ELSE [kind |-> "dict", query |-> query,
        final_answer |-> judge_result.response,
        judge |-> judge.name, all_responses |-> resps]

\* variant: the judge's own result is ignored
synthesis_of_fallback_only(query, resps, judge, judge_result) ==
  [kind |-> "dict", query |-> query,
   final_answer |-> successful_of(resps)[1].response,
   judge |-> "Fallback", all_responses |-> resps]

\* the dict _judge_synthesize returns once the judge's generate returned
synthesis_of(query, resps, judge, judge_result) ==
  IF ~judge_result.success
  THEN [kind |-> "dict", query |-> query,
        final_answer |-> successful_of(resps)[1].response,
        judge |-> "Fallback", all_responses |-> resps]
  ELSE [kind |-> "dict", query |-> query,
        final_answer |-> judge_result.response,
        judge |-> judge.name, all_responses |-> resps]

(* ------------------- ProfileManager.execute_profile -------------------- *)
\* the dict execute_profile returns for a registered profile
execute_return(answer, profile_name, enabled, needs_search) ==
  [kind |-> "dict", answer |-> answer, profile |-> profile_name,
   search_enabled |-> (enabled /\ needs_search)]

\* answer of a council profile, lines 233-236
council_answer(result) ==
  IF result # None THEN result.final_answer
  ELSE "Council failed to generate response"

\* variant: after a failed deliberation the member loop is entered again
Return_resume(result) ==
  /\ final_result' = result
  /\ exec_result' =
       IF program = "router"
       THEN execute_return(council_answer(result), xargs.profile_name,
                           enable_search, xargs.needs_search)
       ELSE exec_result
  /\ pc' = IF result = None THEN "gather" ELSE "done"

\* variant: the result is never handed to the caller
Return_blocked(result) ==
  /\ final_result' = final_result
  /\ exec_result' = exec_result
  /\ pc' = "blocked"

\* deliberate returns `result`; a router caller resumes at line 233
Return(result) ==
  /\ final_result' = result
  /\ exec_result' =
       IF program = "router"
       THEN execute_return(council_answer(result), xargs.profile_name,
                           enable_search, xargs.needs_search)
       ELSE exec_result
  /\ pc' = "done"

\* variant: the judge may search like a member
judge_allow_search_on == TRUE

\* the allow_search argument of self.judge.generate(...)
judge_allow_search == FALSE

\* after the member loop: _judge_synthesize up to the judge's await
JudgeSynthesize ==
  /\ UNCHANGED uvars
  /\ pc = "gather"
  /\ ~members_left(responses, council.members)
  /\ LET successful == successful_of(responses)
     IN IF successful = <<>>
        THEN /\ Return(None)
             /\ UNCHANGED <<g, inflight, log>>
        ELSE /\ GenerateCall("judge", council.judge,
                             judge_prompt_of(args.query, successful),
                             search_context, judge_allow_search, log)
             /\ UNCHANGED <<final_result, exec_result>>
  /\ UNCHANGED <<enable_search, cfg, program, council, args, xargs,
                 search_context, responses, replies>>
  /\ UNCHANGED rvars

\* a generate's POST settles; a member's dict is appended to responses,
\* the judge's dict lets _judge_synthesize return
GenerateSettle(outcome) ==
  /\ UNCHANGED uvars
  /\ pc = "gen_post"
  /\ Request("ollama", g.who.name) \in inflight
  /\ inflight' = inflight \ {Request("ollama", g.who.name)}
  /\ replies' = Append(replies, Reply("ollama", g.who.name, outcome))
  /\ LET r == generate_return(g, outcome)
     IN IF g.role = "member"
        THEN /\ responses' = collect(responses, r)
             /\ pc' = "gather"
             /\ UNCHANGED <<final_result, exec_result>>
        ELSE /\ Return(synthesis_of(args.query, responses, council.judge, r))
             /\ UNCHANGED responses
  /\ g' = NoGen
  /\ UNCHANGED <<enable_search, cfg, program, council, args, xargs,
                 search_context, log>>
  /\ UNCHANGED rvars

\* AIModel.generate: the dict returned once the POST to /api/chat settled
aimodel_return(model, outcome) ==
  CASE outcome = "http"      -> [success |-> FALSE,
                                 response |-> "Error: HTTP 500"]
    [] outcome = "exception" -> [success |-> FALSE,
                                 response |-> "Error: timeout"]
    [] outcome = "empty"     -> [success |-> TRUE, response |-> ""]
    [] OTHER                 -> [success |-> TRUE,
                                 response |-> ModelText[model]]

\* variant: the gateway is built whatever enable_search says
router_searcher_always(enabled) == "key"

\* the WebSearcher execute_profile hands to its council
router_searcher(enabled) == IF enabled THEN "key" ELSE "none"

\* variant: the profile's system prompt is not passed on
single_system_prompt_none(profile) == <<>>

\* system = profile.get("system_prompt", "")
single_system_prompt(profile) == profile.system_prompt

\* variant: the early return reports a measured time
unknown_return_timed ==
  [kind |-> "dict", answer |-> "Unknown profile",
   timing |-> [total |-> 1, preprocessing |-> 0, execution |-> 0]]

\* the dict returned for a profile that is not registered, lines 189-196
unknown_return ==
  [kind |-> "dict", answer |-> "Unknown profile",
   timing |-> [total |-> 0, preprocessing |-> 0, execution |-> 0]]

\* execute_profile from its entry to its first await
execute_profile(profile_name, query, needs_search) ==
  /\ IF profile_name \notin DOMAIN profiles
     THEN /\ exec_result' = unknown_return
          /\ pc' = "done"
          /\ xargs' = [profile_name |-> profile_name, query |-> query,
                       needs_search |-> needs_search]
          /\ council' = NoCouncil
          /\ args' = NoArgs
          /\ search_context' = <<>>
          /\ responses' = <<>>
          /\ g' = NoGen
          /\ inflight' = {}
          /\ log' = <<>>
          /\ replies' = <<>>
          /\ final_result' = Pending
     ELSE LET profile == profiles[profile_name]
              needs == IF ~enable_search THEN FALSE ELSE needs_search
          IN /\ xargs' = [profile_name |-> profile_name, query |-> query,
                          needs_search |-> needs]
             /\ exec_result' = Pending
             /\ IF profile.type = "single"
                THEN /\ pc' = "single_post"
                     /\ inflight' = {Request("ollama", profile.model)}
                     /\ log' = <<Event("chat", profile.model,
                                       single_system_prompt(profile),
                                       QueryPrompt(query), FALSE)>>
                     /\ council' = NoCouncil
                     /\ args' = NoArgs
                     /\ search_context' = <<>>
                     /\ responses' = <<>>
                     /\ g' = NoGen
                     /\ replies' = <<>>
                     /\ final_result' = Pending
                ELSE DeliberateCall(
                       RouterCouncil(router_searcher(enable_search)), query,
                       enable_search, profile.force_search \/ needs)
  /\ UNCHANGED <<enable_search, cfg, program>>

\* a caller that holds a ProfileManager calls execute_profile
ExecuteProfile(profile_name, query, needs_search) ==
  /\ UNCHANGED uvars
  /\ pc = "idle"
  /\ program = "router"
  /\ execute_profile(profile_name, query, needs_search)
  /\ UNCHANGED rvars

\* variant: a failed call is reported as such
single_answer_checked(result) ==
  IF result.success THEN result.response ELSE "Model call failed"

\* answer = result["response"], line 209
single_answer(result) == result.response

\* the single model's POST settles; execute_profile returns
SingleSettle(outcome) ==
  /\ UNCHANGED uvars
  /\ pc = "single_post"
  /\ LET profile == profiles[xargs.profile_name]
         result == aimodel_return(profile.model, outcome)
     IN exec_result' = execute_return(single_answer(result),
                                      xargs.profile_name,
                                      enable_search, xargs.needs_search)
  /\ inflight' = {}
  /\ replies' = Append(replies,
                       Reply("ollama", profiles[xargs.profile_name].model,
                             outcome))
  /\ pc' = "done"
  /\ UNCHANGED <<enable_search, cfg, program, council, args, xargs,
                 search_context, responses, g, log, final_result>>
  /\ UNCHANGED rvars

(* ----------------------------- QueryRouter ------------------------------ *)
\* str.upper() on the letters that occur in the modelled texts
UpperChar(c) ==
  IF \E k \in DOMAIN LowerMap : LowerMap[k] = c
  THEN CHOOSE k \in DOMAIN LowerMap : LowerMap[k] = c
  ELSE c

Upper(s) == [k \in 1..Len(s) |-> UpperChar(s[k])]

Whitespace == {" ", "\t", "\r", "\n"}

\* str.strip()
RECURSIVE lstrip(_)
lstrip(s) ==
  IF s # <<>> /\ Head(s) \in Whitespace THEN lstrip(Tail(s)) ELSE s

RECURSIVE rstrip(_)
rstrip(s) ==
  IF s # <<>> /\ s[Len(s)] \in Whitespace
  THEN rstrip(SubSeq(s, 1, Len(s) - 1))
  ELSE s

strip(s) == rstrip(lstrip(s))

\* str.startswith on characters
HasPrefix(s, prefix) ==
  Len(s) >= Len(prefix) /\ SubSeq(s, 1, Len(prefix)) = prefix

\* str.split('\n')
RECURSIVE split_lines(_)
split_lines(s) ==
  IF \E k \in 1..Len(s) : s[k] = "\n"
  THEN LET k == CHOOSE i \in 1..Len(s) :
                   s[i] = "\n" /\ \A j \in 1..(i - 1) : s[j] # "\n"
       IN <<SubSeq(s, 1, k - 1)>> \o split_lines(SubSeq(s, k + 1, Len(s)))
  ELSE <<s>>

\* line.split(':', 1)[1] of a line that holds a colon
after_colon(line) ==
  LET k == CHOOSE i \in 1..Len(line) :
                line[i] = ":" /\ \A j \in 1..(i - 1) : line[j] # ":"
  IN SubSeq(line, k + 1, Len(line))

\* len(query.split())
word_count(s) ==
  Cardinality({k \in 1..Len(s) :
                 /\ s[k] \notin Whitespace
                 /\ (k = 1 \/ s[k - 1] \in Whitespace)})

\* the profile names that occur as text, and the name each text denotes
ProfileText ==
  [SIMPLE |-> <<"S","I","M","P","L","E">>,
   CODE |-> <<"C","O","D","E">>,
   RESEARCH |-> <<"R","E","S","E","A","R","C","H">>,
   CREATIVE |-> <<"C","R","E","A","T","I","V","E">>,
   CURRENT |-> <<"C","U","R","R","E","N","T">>,
   POETRY |-> <<"P","O","E","T","R","Y">>,
   code |-> <<"c","o","d","e">>,
   research |-> <<"r","e","s","e","a","r","c","h">>]

Intern(t) ==
  IF \E n \in DOMAIN ProfileText : ProfileText[n] = t
  THEN CHOOSE n \in DOMAIN ProfileText : ProfileText[n] = t
  ELSE "OTHER"

\* the keyword lists of _fallback_routing
code_keywords ==
  { <<"c","o","d","e">>,
    <<"p","r","o","g","r","a","m">>,
    <<"f","u","n","c","t","i","o","n">>,
    <<"d","e","b","u","g">>,
    <<"e","r","r","o","r">>,
    <<"p","y","t","h","o","n">>,
    <<"j","a","v","a","s","c","r","i","p","t">>,
    <<"j","a","v","a">>,
    <<"c","+","+">>,
    <<"s","y","n","t","a","x">> }

current_keywords ==
  { <<"l","a","t","e","s","t">>,
    <<"r","e","c","e","n","t">>,
    <<"t","o","d","a","y">>,
    <<"n","e","w","s">>,
    <<"c","u","r","r","e","n","t">>,
    <<"n","o","w">>,
    <<"2","0","2","4">>,
    <<"2","0","2","5">> }

research_keywords ==
  { <<"e","x","p","l","a","i","n">>,
    <<"c","o","m","p","a","r","e">>,
    <<"a","n","a","l","y","z","e">>,
    <<"w","h","y">>,
    <<"h","o","w"," ","d","o","e","s">>,
    <<"r","e","s","e","a","r","c","h">>,
    <<"s","t","u","d","y">> }

creative_keywords ==
  { <<"w","r","i","t","e">>,
    <<"s","t","o","r","y">>,
    <<"p","o","e","m">>,
    <<"c","r","e","a","t","i","v","e">>,
    <<"i","m","a","g","i","n","e">>,
    <<"b","r","a","i","n","s","t","o","r","m">> }

any_in(keywords, text) == \E kw \in keywords : IsSubstring(kw, text)

RoutingDict(profile, reason, needs_search) ==
  [kind |-> "dict", profile |-> profile, reason |-> reason,
   needs_search |-> needs_search]

\* variant: the current-events rule is tried before the code rule
_fallback_routing_current_first(query) ==
  LET query_lower == Lower(query)
  IN IF any_in(current_keywords, query_lower)
     THEN RoutingDict("CURRENT", "Current events keywords", TRUE)
     ELSE IF any_in(code_keywords, query_lower)
     THEN RoutingDict("CODE", "Code keywords detected", FALSE)
     ELSE IF any_in(research_keywords, query_lower) /\ word_count(query) > 10
     THEN RoutingDict("RESEARCH", "Complex research question", FALSE)
     ELSE IF any_in(creative_keywords, query_lower)
     THEN RoutingDict("CREATIVE", "Creative content request", FALSE)
     ELSE RoutingDict("SIMPLE", "Simple factual question", FALSE)

\* QueryRouter._fallback_routing
_fallback_routing(query) ==
  LET query_lower == Lower(query)
  IN IF any_in(code_keywords, query_lower)
     THEN RoutingDict("CODE", "Code keywords detected", FALSE)
     ELSE IF any_in(current_keywords, query_lower)
     THEN RoutingDict("CURRENT", "Current events keywords", TRUE)
     ELSE IF any_in(research_keywords, query_lower) /\ word_count(query) > 10
     THEN RoutingDict("RESEARCH", "Complex research question", FALSE)
     ELSE IF any_in(creative_keywords, query_lower)
     THEN RoutingDict("CREATIVE", "Creative content request", FALSE)
     ELSE RoutingDict("SIMPLE", "Simple factual question", FALSE)

\* the labels analyze_query looks for
LabelProfile ==
  <<"P","R","O","F","I","L","E",":">>
LabelReason ==
  <<"R","E","A","S","O","N",":">>
LabelNeedsSearch ==
  <<"N","E","E","D","S","_","S","E","A","R","C","H",":">>
TextYes == <<"y","e","s">>

\* one iteration of `for line in response.split('\n')`, lines 87-93; the
\* reason is kept as a mark that the model stated one, not as its text
parse_line(acc, line) ==
  IF HasPrefix(line, LabelProfile)
  THEN [acc EXCEPT !.profile = Intern(Upper(strip(after_colon(line))))]
  ELSE IF HasPrefix(line, LabelReason)
  THEN [acc EXCEPT !.reason = "stated by the model"]
  ELSE IF HasPrefix(line, LabelNeedsSearch)
  THEN [acc EXCEPT !.needs_search = IsSubstring(TextYes, Lower(line))]
  ELSE acc

RECURSIVE parse_lines(_, _)
parse_lines(acc, lines) ==
  IF lines = <<>> THEN acc
  ELSE parse_lines(parse_line(acc, Head(lines)), Tail(lines))

\* analyze_query from line 80: the defaults, then the parsing loop
parse_routing(query, response) ==
  parse_lines(RoutingDict("SIMPLE", "Fallback routing", FALSE),
              split_lines(response))

\* AIModel.generate: the dict returned for a reply with this content; the
\* error text of a failed call, which analyze_query never reads, is left out
aimodel_result(outcome, content) ==
  CASE outcome = "http"      -> [success |-> FALSE, response |-> <<>>]
    [] outcome = "exception" -> [success |-> FALSE, response |-> <<>>]
    [] outcome = "empty"     -> [success |-> TRUE, response |-> <<>>]
    [] OTHER                 -> [success |-> TRUE, response |-> content]

\* variant: a failed inference call is parsed like a reply
analyze_return_no_fallback(query, result) ==
  parse_routing(query, result.response)

\* variant: an empty reply yields no routing at all
analyze_return_none_on_empty(query, result) ==
  IF ~result.success THEN _fallback_routing(query)
  ELSE IF result.response = <<>> THEN NoRouting
  ELSE parse_routing(query, result.response)

\* what analyze_query returns once generate has returned `result`
analyze_return(query, result) ==
  IF ~result.success THEN _fallback_routing(query)
  ELSE parse_routing(query, result.response)

\* the queries handed to analyze_query directly
QueryDebug ==
  <<"d","e","b","u","g"," ","t","h","i","s"," ","f","u","n","c","t","i",
    "o","n">>
QueryCodeTemporal ==
  <<"l","a","t","e","s","t"," ","p","y","t","h","o","n">>
QueryTemporalCreative ==
  <<"w","r","i","t","e"," ","a"," ","p","o","e","m"," ","t","o","d","a",
    "y">>
QueryResearchShort ==
  <<"e","x","p","l","a","i","n"," ","w","h","y">>
QueryResearchTen ==
  <<"e","x","p","l","a","i","n"," ","w","h","y"," ","t","h","e"," ","s",
    "k","y"," ","i","s"," ","s","o"," ","b","l","u","e"," ","a","n","d",
    " ","s","o"," ","b","i","g">>
QueryResearchLong ==
  <<"e","x","p","l","a","i","n"," ","w","h","y"," ","t","h","e"," ","s",
    "k","y"," ","i","s"," ","s","o"," ","b","l","u","e"," ","a","n","d",
    " ","s","o"," ","b","i","g"," ","a","t"," ","d","u","s","k">>
QueryResearchCreative ==
  <<"e","x","p","l","a","i","n"," ","a"," ","p","o","e","m">>
QueryCreative ==
  <<"W","r","i","t","e"," ","a"," ","s","t","o","r","y">>
ClassifyQueries ==
  Queries \cup {QueryDebug, QueryCodeTemporal, QueryTemporalCreative, QueryResearchShort,
              QueryResearchTen, QueryResearchLong, QueryResearchCreative, QueryCreative}

\* the texts the classifier model answers with
TextCode ==
  <<"P","R","O","F","I","L","E",":"," ","C","O","D","E","\n","R","E",
    "A","S","O","N",":"," ","c","o","d","e","\n","N","E","E","D","S",
    "_","S","E","A","R","C","H",":"," ","n","o">>
TextCurrent ==
  <<"P","R","O","F","I","L","E",":"," ","C","U","R","R","E","N","T",
    "\n","R","E","A","S","O","N",":"," ","n","e","w","s","\n","N","E",
    "E","D","S","_","S","E","A","R","C","H",":"," ","y","e","s">>
TextResearchLower ==
  <<"P","R","O","F","I","L","E",":"," ","r","e","s","e","a","r","c","h",
    "\n","R","E","A","S","O","N",":"," ","d","e","e","p","\n","N","E",
    "E","D","S","_","S","E","A","R","C","H",":"," ","n","o">>
TextUnknownProfile ==
  <<"P","R","O","F","I","L","E",":"," ","P","O","E","T","R","Y","\n",
    "N","E","E","D","S","_","S","E","A","R","C","H",":"," ","n","o">>
TextNoLabels ==
  <<"A"," ","c","o","d","i","n","g"," ","q","u","e","s","t","i","o","n",
    ".">>
TextLowerLabels ==
  <<"p","r","o","f","i","l","e",":"," ","c","o","d","e","\n","n","e",
    "e","d","s","_","s","e","a","r","c","h",":"," ","y","e","s">>
TextIndented ==
  <<" "," ","P","r","o","f","i","l","e",":"," ","C","O","D","E">>
TextNoProfile ==
  <<"R","E","A","S","O","N",":"," ","e","a","s","y","\n","N","E","E",
    "D","S","_","S","E","A","R","C","H",":"," ","n","o">>
ClassifierTexts ==
  {TextCode, TextCurrent, TextResearchLower, TextUnknownProfile,
   TextNoLabels, TextLowerLabels, TextIndented, TextNoProfile}

(* ------------------- QueryRouter.analyze_query, callers ----------------- *)
RoutingPrompt(query) ==
  [template |-> "routing", query |-> query, responses_text |-> <<>>]

\* analyze_query from its entry to the await of preprocessor.generate
AnalyzeCall(query) ==
  /\ analysis' = [query |-> query, outcome |-> "pending",
                  result |-> NoResult]
  /\ routing' = NoRouting
  /\ clog' = <<Event("chat", "Router", <<>>, RoutingPrompt(query), FALSE)>>
  /\ inflight' = {Request("ollama", "Router")}
  /\ pc' = "classify"
  /\ UNCHANGED <<enable_search, cfg, program, council, args, xargs,
                 search_context, responses, g, log, replies, final_result,
                 exec_result>>

\* a caller that holds a QueryRouter calls analyze_query
AnalyzeQuery(query) ==
  /\ UNCHANGED uvars
  /\ pc = "idle"
  /\ program = "router"
  /\ current_profile' = ""
  /\ AnalyzeCall(query)

\* variant: the classifier is consulted whatever profile was asked for
must_classify_always(requested) == TRUE

\* `if self.current_profile == "AUTO"`; in ai_router.main the else branch
\* taken when neither --no-preprocess nor --profile is given
must_classify(requested) == requested = "AUTO"

\* the profiles the front end's buttons select
TuiProfiles == {"AUTO"} \cup DOMAIN profiles

\* AICouncilTUI.process_query up to its first await
ProcessQuery(requested, query) ==
  /\ UNCHANGED uvars
  /\ pc = "idle"
  /\ program = "router"
  /\ current_profile' = requested
  /\ IF must_classify(requested)
     THEN AnalyzeCall(query)
     ELSE /\ execute_profile(requested, query, requested = "CURRENT")
          /\ UNCHANGED <<analysis, routing, clog>>

\* the values of --profile; "" stands for an absent option
CliProfiles == {"", "code", "CURRENT", "BOGUS"}

\* args.profile.upper()
upper_name(name) ==
  IF name \in DOMAIN ProfileText THEN Intern(Upper(ProfileText[name]))
  ELSE name

\* ai_router.main from the parsed arguments to its first await
Main(profile, no_preprocess, query) ==
  /\ UNCHANGED uvars
  /\ pc = "idle"
  /\ program = "router"
  /\ LET requested == IF no_preprocess
                      THEN (IF profile = "" THEN "SIMPLE" ELSE profile)
                      ELSE IF profile # "" THEN profile ELSE "AUTO"
         profile_name == IF no_preprocess THEN requested
                         ELSE upper_name(requested)
     IN /\ current_profile' = requested
        /\ IF must_classify(requested)
           THEN AnalyzeCall(query)
           ELSE /\ execute_profile(profile_name, query, FALSE)
                /\ UNCHANGED <<analysis, routing, clog>>

\* the classifier's POST settles; analyze_query returns
AnalyzeSettle(outcome, content) ==
  /\ UNCHANGED uvars
  /\ pc = "classify"
  /\ Request("ollama", "Router") \in inflight
  /\ IF outcome = "ok" THEN content \in ClassifierTexts ELSE content = <<>>
  /\ LET result == aimodel_result(outcome, content)
     IN /\ analysis' = [analysis EXCEPT !.outcome = outcome,
                                        !.result = result]
        /\ routing' = analyze_return(analysis.query, result)
  /\ inflight' = {}
  /\ pc' = IF current_profile = "" THEN "done" ELSE "routed"
  /\ UNCHANGED <<enable_search, cfg, program, council, args, xargs,
                 search_context, responses, g, log, replies, final_result,
                 exec_result, current_profile, clog>>

\* the front end hands the routing to execute_profile
RouteExecute ==
  /\ UNCHANGED uvars
  /\ pc = "routed"
  /\ execute_profile(routing.profile, analysis.query, routing.needs_search)
  /\ analysis' = NoAnalysis
  /\ UNCHANGED <<current_profile, routing, clog>>

\* ProfileManager.toggle_search, between two calls
ToggleSearch(enabled) ==
  /\ UNCHANGED uvars
  /\ pc = "idle"
  /\ program = "router"
  /\ enable_search' = enabled
  /\ UNCHANGED <<cfg, program, pc, council, args, xargs, search_context,
                 responses, g, inflight, log, replies, final_result,
                 exec_result>>
  /\ UNCHANGED rvars

\* the caller has consumed the result and waits for the next query; the
\* locals of the finished call are gone
NextQuery ==
  /\ UNCHANGED uvars
  /\ pc = "done"
  /\ pc' = "idle"
  /\ council' = NoCouncil
  /\ args' = NoArgs
  /\ xargs' = NoXArgs
  /\ search_context' = <<>>
  /\ responses' = <<>>
  /\ g' = NoGen
  /\ inflight' = {}
  /\ log' = <<>>
  /\ replies' = <<>>
  /\ final_result' = Pending
  /\ exec_result' = Pending
  /\ current_profile' = ""
  /\ analysis' = NoAnalysis
  /\ routing' = NoRouting
  /\ clog' = <<>>
  /\ UNCHANGED <<enable_search, cfg, program>>

Next ==
  \/ \E q \in Queries, us \in BOOLEAN, fs \in BOOLEAN : Deliberate(q, us, fs)
  \/ \E p \in ProfileNames, q \in Queries, ns \in BOOLEAN :
        ExecuteProfile(p, q, ns)
  \/ \E o \in SearchOutcomes : CouncilSearchSettle(o)
  \/ MemberGenerate
  \/ \E o \in SearchOutcomes : GenerateSearchSettle(o)
  \/ JudgeSynthesize
  \/ \E o \in InferenceOutcomes : GenerateSettle(o)
  \/ \E o \in InferenceOutcomes : SingleSettle(o)
  \/ \E e \in BOOLEAN : ToggleSearch(e)
  \/ NextQuery

Spec == Init /\ [][Next]_vars

\* every request settles (the POSTs carry a total timeout of 120 s, the
\* GETs one of 30 s) and a coroutine that can run does run
Settling ==
  /\ WF_vars(\E o \in SearchOutcomes : CouncilSearchSettle(o))
  /\ WF_vars(MemberGenerate)
  /\ WF_vars(\E o \in SearchOutcomes : GenerateSearchSettle(o))
  /\ WF_vars(JudgeSynthesize)
  /\ WF_vars(\E o \in InferenceOutcomes : GenerateSettle(o))
  /\ WF_vars(\E o \in InferenceOutcomes : SingleSettle(o))

LiveSpec == Spec /\ Settling

\* variant: generate's handler swallows the cancellation
propagates_cancel_caught == FALSE

\* `except Exception` does not catch asyncio.CancelledError, which derives
\* from BaseException: a cancellation leaves generate and deliberate
propagates_cancel == TRUE

CancelEvent == Event("cancel", "caller", <<>>, QueryPrompt(<<>>), FALSE)

\* the caller cancels the task that runs the call; the cancellation is
\* delivered at the await the task is suspended on
Cancel ==
  /\ UNCHANGED uvars
  /\ pc \in {"council_search", "gen_search", "gen_post", "single_post"}
  /\ \A k \in 1..Len(log) : log[k].ev # "cancel"
  /\ log' = Append(log, CancelEvent)
  /\ IF propagates_cancel
     THEN /\ pc' = "cancelled"
          /\ inflight' = {}
          /\ responses' = <<>>
          /\ search_context' = <<>>
          /\ g' = NoGen
     ELSE UNCHANGED <<pc, inflight, responses, search_context, g>>
  /\ UNCHANGED <<enable_search, cfg, program, council, args, xargs,
                 replies, final_result, exec_result>>
  /\ UNCHANGED rvars

CancelNext == Next \/ Cancel

\* the programs with a caller that may cancel the call in progress
CancelSpec == Init /\ [][CancelNext]_vars

\* the router behind its front ends: queries enter through process_query,
\* ai_router.main or analyze_query
RouteInit == Init /\ program = "router"

RouteNext ==
  \/ \E p \in TuiProfiles, q \in Queries : ProcessQuery(p, q)
  \/ \E p \in CliProfiles, np \in BOOLEAN, q \in Queries : Main(p, np, q)
  \/ \E q \in ClassifyQueries : AnalyzeQuery(q)
  \/ \E o \in InferenceOutcomes, t \in ClassifierTexts \cup {<<>>} :
        AnalyzeSettle(o, t)
  \/ RouteExecute
  \/ \E o \in SearchOutcomes : CouncilSearchSettle(o)
  \/ MemberGenerate
  \/ \E o \in SearchOutcomes : GenerateSearchSettle(o)
  \/ JudgeSynthesize
  \/ \E o \in InferenceOutcomes : GenerateSettle(o)
  \/ \E o \in InferenceOutcomes : SingleSettle(o)
  \/ \E e \in BOOLEAN : ToggleSearch(e)
  \/ NextQuery

RouteSpec == RouteInit /\ [][RouteNext]_vars

\* analyze_query alone, with a classifier request that always settles
\* (the POST carries a total timeout of 120 s)
AnalyzeNext ==
  \/ \E q \in ClassifyQueries : AnalyzeQuery(q)
  \/ \E o \in InferenceOutcomes, t \in ClassifierTexts \cup {<<>>} :
        AnalyzeSettle(o, t)
  \/ \E e \in BOOLEAN : ToggleSearch(e)
  \/ NextQuery

AnalyzeSpec ==
  /\ RouteInit
  /\ [][AnalyzeNext]_vars
  /\ WF_vars(\E o \in InferenceOutcomes, t \in ClassifierTexts \cup {<<>>} :
               AnalyzeSettle(o, t))

(* ------------------- AICouncilTUI: the search switch ------------------- *)
\* Config.get("search.enabled", default): the default stands in for a
\* missing key
config_get(c, default) == IF c.present THEN c.value ELSE default

\* Config.set("search.enabled", value), which rewrites the file
config_set(value) == [present |-> TRUE, value |-> value]

\* the configuration files the front end can start from
Configs == {NoConfig, config_set(TRUE), config_set(FALSE)}

\* variant: the manager is handed the value the flag had before the toggle
toggle_argument_stale(flag) == ~flag

\* the argument of self.profile_manager.toggle_search(self.search_enabled)
toggle_argument(flag) == flag

\* AICouncilTUI.action_toggle_search; the front end handles one message at
\* a time, so the handler runs between two queries
ActionToggleSearch ==
  /\ pc = "idle"
  /\ program = "router"
  /\ LET flag == ~search_enabled
     IN /\ search_enabled' = flag
        /\ enable_search' = toggle_argument(flag)
        /\ config' = config_set(flag)
        /\ toggled_off' = (toggled_off \/ ~flag)
  /\ UNCHANGED <<cfg, program, pc, council, args, xargs, search_context,
                 responses, g, inflight, log, replies, final_result,
                 exec_result>>
  /\ UNCHANGED <<rvars, cvars>>

\* the front end after __init__ and on_mount: the flag is read from the
\* configuration and handed to the ProfileManager; the chat handlers are
\* specified apart
TuiInit ==
  /\ program = "router"
  /\ cfg = NoCouncil
  /\ config \in Configs
  /\ search_enabled = config_get(config, TRUE)
  /\ enable_search = search_enabled
  /\ toggled_off = FALSE
  /\ pc = "idle"
  /\ council = NoCouncil
  /\ args = NoArgs
  /\ xargs = NoXArgs
  /\ search_context = <<>>
  /\ responses = <<>>
  /\ g = NoGen
  /\ inflight = {}
  /\ log = <<>>
  /\ replies = <<>>
  /\ final_result = Pending
  /\ exec_result = Pending
  /\ current_profile = ""
  /\ analysis = NoAnalysis
  /\ routing = NoRouting
  /\ clog = <<>>
  /\ current_chat = NoChat
  /\ files = <<>>
  /\ deleted = {}
  /\ now = 1
  /\ last_action = "none"

TuiNext ==
  \/ \E p \in TuiProfiles, q \in Queries : ProcessQuery(p, q)
  \/ \E o \in InferenceOutcomes, t \in ClassifierTexts \cup {<<>>} :
        AnalyzeSettle(o, t)
  \/ RouteExecute
  \/ \E o \in SearchOutcomes : CouncilSearchSettle(o)
  \/ MemberGenerate
  \/ \E o \in SearchOutcomes : GenerateSearchSettle(o)
  \/ JudgeSynthesize
  \/ \E o \in InferenceOutcomes : GenerateSettle(o)
  \/ \E o \in InferenceOutcomes : SingleSettle(o)
  \/ ActionToggleSearch
  \/ NextQuery

TuiSpec == TuiInit /\ [][TuiNext]_vars

(* ----------------------------- chat_manager ----------------------------- *)
\* the last reading of the clock a session may take
MaxClock == 11

\* the title Chat.__init__ gives a chat that was handed none
DefaultTitle == <<"N", "e", "w", " ", "C", "h", "a", "t">>

\* content[:50] + ("..." if len(content) > 50 else "")
title_of(content) ==
  SubSeq(content, 1, IF Len(content) < 50 THEN Len(content) ELSE 50)
    \o (IF Len(content) > 50 THEN <<".", ".", ".">> ELSE <<>>)

\* the dict {}
EmptyDict == [k \in {} |-> 0]

\* an absent timestamp: what data.get("timestamp") gives for a missing key
NoTimestamp == 0

\* an absent chat_id or title: the constructor's default None
NoText == <<>>

\* ChatMessage.__init__: `timestamp or datetime.now().isoformat()`,
\* `metadata or {}`; clock is what datetime.now() would read
ChatMessage(role, content, timestamp, metadata, clock) ==
  [cls |-> "ChatMessage", role |-> role, content |-> content,
   timestamp |-> IF timestamp # NoTimestamp THEN timestamp ELSE clock,
   metadata |-> IF metadata # EmptyDict THEN metadata ELSE EmptyDict]

\* ChatMessage.to_dict
message_to_dict(msg) ==
  [role |-> msg.role, content |-> msg.content, timestamp |-> msg.timestamp,
   metadata |-> msg.metadata]

\* ChatMessage.from_dict
message_from_dict(data, clock) ==
  ChatMessage(data.role, data.content, data.timestamp, data.metadata, clock)

\* Chat._generate_id: the digest of the clock's reading
_generate_id(clock) == <<"md5", clock>>

\* Chat.__init__: a generated id takes one reading of the clock, created_at
\* the next one
Chat(chat_id, title, clock) ==
  LET generated == chat_id = NoText
      created == IF generated THEN clock + 1 ELSE clock
  IN [cls |-> "Chat",
      chat_id |-> IF generated THEN _generate_id(clock) ELSE chat_id,
      title |-> IF title # NoText THEN title ELSE DefaultTitle,
      messages |-> <<>>,
      created_at |-> created,
      updated_at |-> created,
      metadata |-> [profile |-> "AUTO", search_enabled |-> TRUE,
                    total_queries |-> 0, total_time |-> 0]]

\* `if not self.title or self.title == "New Chat"` and
\* `if role == "user" and len(content) > 0`
retitles(chat, role, content) ==
  /\ chat.title = NoText \/ chat.title = DefaultTitle
  /\ role = "user"
  /\ Len(content) > 0

\* Chat.add_message: the message's timestamp takes one reading of the
\* clock, updated_at the next one
add_message(chat, role, content, metadata, clock) ==
  LET msg == ChatMessage(role, content, NoTimestamp, metadata, clock)
      counted == IF role = "user"
                 THEN [chat.metadata EXCEPT !.total_queries = @ + 1]
                 ELSE chat.metadata
      timed == IF metadata # EmptyDict /\ "timing" \in DOMAIN metadata
               THEN [counted EXCEPT !.total_time = @ + metadata.timing.total]
               ELSE counted
  IN [chat EXCEPT !.messages = Append(@, msg),
                  !.updated_at = clock + 1,
                  !.metadata = timed,
                  !.title = IF retitles(chat, role, content)
                            THEN title_of(content) ELSE @]

\* Chat.to_dict; json.dump and json.load keep such a dict as it is
to_dict(chat) ==
  [chat_id |-> chat.chat_id, title |-> chat.title,
   created_at |-> chat.created_at, updated_at |-> chat.updated_at,
   metadata |-> chat.metadata,
   messages |-> [i \in 1..Len(chat.messages) |->
                   message_to_dict(chat.messages[i])]]

\* variant: the loaded chat keeps the created_at its constructor gave it
from_dict_fresh(data, clock) ==
  LET chat == Chat(data.chat_id, data.title, clock)
  IN [chat EXCEPT !.updated_at = data.updated_at,
                  !.metadata = data.metadata,
                  !.messages = [i \in 1..Len(data.messages) |->
                                  message_from_dict(data.messages[i], clock)]]

\* Chat.from_dict
from_dict(data, clock) ==
  LET chat == Chat(data.chat_id, data.title, clock)
  IN [chat EXCEPT !.created_at = data.created_at,
                  !.updated_at = data.updated_at,
                  !.metadata = data.metadata,
                  !.messages = [i \in 1..Len(data.messages) |->
                                  message_from_dict(data.messages[i], clock)]]

\* ChatManager.save_chat: the chats_dir after {chat_id}.json was written
save_chat(dir, chat) ==
  [id \in DOMAIN dir \cup {chat.chat_id} |->
     IF id = chat.chat_id THEN to_dict(chat) ELSE dir[id]]

\* ChatManager.load_chat
load_chat(dir, chat_id, clock) ==
  IF chat_id \notin DOMAIN dir THEN NoChat ELSE from_dict(dir[chat_id], clock)

\* ChatManager.list_chats: the chat_ids of the listed chats
list_chats(dir) == DOMAIN dir

\* ChatManager.delete_chat
delete_chat(dir, chat_id) == [id \in DOMAIN dir \ {chat_id} |-> dir[id]]

(* ------------------- AICouncilTUI: the chat handlers -------------------- *)
\* what the user types into the input line: New Chat, hello after a
\* blank, a text of 51 characters, and blanks alone
ChatInputs ==
  {<<"N", "e", "w", " ", "C", "h", "a", "t">>,
   <<" ", "h", "e", "l", "l", "o">>,
   [i \in 1..51 |-> "a"],
   <<" ", " ">>}

\* what process_query got from execute_profile: a result dict, or an
\* exception that its handler logged
Answers ==
  {[kind |-> "dict", answer |-> <<"o", "k">>,
    timing |-> [total |-> 2, preprocessing |-> 1, execution |-> 1],
    profile |-> "SIMPLE"],
   [kind |-> "exception", answer |-> <<>>,
    timing |-> [total |-> 0, preprocessing |-> 0, execution |-> 0],
    profile |-> ""]}

\* the call state of a front end that is between two queries
CallIdle ==
  /\ program = "router"
  /\ cfg = NoCouncil
  /\ enable_search = TRUE
  /\ search_enabled = TRUE
  /\ config = NoConfig
  /\ toggled_off = FALSE
  /\ pc = "idle"
  /\ council = NoCouncil
  /\ args = NoArgs
  /\ xargs = NoXArgs
  /\ search_context = <<>>
  /\ responses = <<>>
  /\ g = NoGen
  /\ inflight = {}
  /\ log = <<>>
  /\ replies = <<>>
  /\ final_result = Pending
  /\ exec_result = Pending
  /\ current_profile = ""
  /\ analysis = NoAnalysis
  /\ routing = NoRouting
  /\ clog = <<>>

\* what the chat handlers leave alone
xvars == <<enable_search, cfg, program, pc, council, args, xargs,
           search_context, responses, g, inflight, log, replies,
           final_result, exec_result, rvars, tvars>>

\* AICouncilTUI.__init__: self.current_chat = self.chat_manager.new_chat(),
\* over an empty chats_dir
ChatInit ==
  /\ CallIdle
  /\ current_chat = Chat(NoText, NoText, 1)
  /\ now = 3
  /\ files = <<>>
  /\ deleted = {}
  /\ last_action = "init"

\* the application runs until action_quit calls self.exit()
Running == last_action # "quit"

\* AICouncilTUI.on_input_submitted with process_query: the user message,
\* the assistant message unless process_query caught an exception, and the
\* auto-save
OnInputSubmitted(value, result) ==
  /\ Running
  /\ now + 4 <= MaxClock
  /\ LET query == strip(value)
         asked == add_message(current_chat, "user", query, EmptyDict, now)
         answered == add_message(asked, "assistant", result.answer,
                                 [timing |-> result.timing,
                                  profile |-> result.profile], now + 2)
         chat == IF result.kind = "dict" THEN answered ELSE asked
     IN /\ query # <<>>
        /\ current_chat' = chat
        /\ files' = save_chat(files, chat)
        /\ now' = IF result.kind = "dict" THEN now + 4 ELSE now + 2
  /\ last_action' = "submit"
  /\ UNCHANGED <<deleted, xvars>>

\* AICouncilTUI.action_new_chat
ActionNewChat ==
  /\ Running
  /\ now + 2 <= MaxClock
  /\ files' = save_chat(files, current_chat)
  /\ current_chat' = Chat(NoText, NoText, now)
  /\ now' = now + 2
  /\ last_action' = "new"
  /\ UNCHANGED <<deleted, xvars>>

\* AICouncilTUI.action_save_chat
ActionSaveChat ==
  /\ Running
  /\ files' = save_chat(files, current_chat)
  /\ last_action' = "save"
  /\ UNCHANGED <<current_chat, deleted, now, xvars>>

\* what ChatListScreen is dismissed with, for the chats it listed when it
\* was mounted
ScreenResults ==
  {<<"cancel", NoText>>}
    \cup {<<action, id>> : action \in {"load", "delete"},
                           id \in list_chats(files)}

\* AICouncilTUI.action_open_chat with ChatListScreen.on_button_pressed
ActionOpenChat(result) ==
  /\ Running
  /\ result \in ScreenResults
  /\ now + 1 <= MaxClock
  /\ LET action == result[1]
         chat_id == result[2]
     IN /\ last_action' = action
        /\ CASE action = "load" ->
                  LET saved == save_chat(files, current_chat)
                      loaded_chat == load_chat(saved, chat_id, now)
                  IN /\ files' = saved
                     /\ current_chat' = IF loaded_chat # NoChat
                                        THEN loaded_chat ELSE current_chat
                     /\ now' = IF chat_id \in DOMAIN saved
                               THEN now + 1 ELSE now
                     /\ UNCHANGED deleted
             [] action = "delete" ->
                  /\ files' = delete_chat(files, chat_id)
                  /\ deleted' = deleted \cup {chat_id}
                  /\ UNCHANGED <<current_chat, now>>
             [] OTHER -> UNCHANGED <<current_chat, files, deleted, now>>
  /\ UNCHANGED xvars

\* AICouncilTUI.action_quit
ActionQuit ==
  /\ Running
  /\ files' = save_chat(files, current_chat)
  /\ last_action' = "quit"
  /\ UNCHANGED <<current_chat, deleted, now, xvars>>

ChatNext ==
  \/ \E value \in ChatInputs, result \in Answers :
        OnInputSubmitted(value, result)
  \/ ActionNewChat
  \/ ActionSaveChat
  \/ \E result \in ScreenResults : ActionOpenChat(result)
  \/ ActionQuit

ChatSpec == ChatInit /\ [][ChatNext]_vars

\* a chat of its own, handed any sequence of messages
MessageRoles == {"user", "assistant"}
MessageContents == ChatInputs \cup {<<>>, [i \in 1..50 |-> "b"]}

\* a caller of Chat.add_message
AddMessage(role, content) ==
  /\ now + 2 <= MaxClock
  /\ current_chat' = add_message(current_chat, role, content, EmptyDict, now)
  /\ now' = now + 2
  /\ UNCHANGED <<files, deleted, last_action, xvars>>

TitleNext == \E role \in MessageRoles, content \in MessageContents :
               AddMessage(role, content)

TitleSpec == ChatInit /\ [][TitleNext]_vars

(* ======================= properties of the model ======================= *)
\* a deliberate call is in progress or has just returned
InDeliberation == council # NoCouncil

NumMembers == Len(council.members)

MemberNameAt(i) == council.members[i].name

LogHas(ev, by) == \E k \in 1..Len(log) : log[k].ev = ev /\ log[k].by = by

\* the inference service has answered the POST of agent `by`
Settled(by) ==
  \E k \in 1..Len(replies) : replies[k].svc = "ollama" /\ replies[k].by = by

\* the inference service answered the POST of agent `by` with a text
Succeeded(by) ==
  \E k \in 1..Len(replies) :
     replies[k].svc = "ollama" /\ replies[k].by = by
     /\ replies[k].outcome = "ok"

\* the fault pattern injected so far, by configured member index
SuccessPattern == [i \in 1..NumMembers |-> Succeeded(MemberNameAt(i))]

AnyMemberSucceeded == \E i \in 1..NumMembers : Succeeded(MemberNameAt(i))

DeliberationDone == pc = "done" /\ InDeliberation

\* index of the first member, in configured order, whose call succeeded
FirstSuccessful ==
  CHOOSE i \in 1..NumMembers :
     /\ Succeeded(MemberNameAt(i))
     /\ \A j \in 1..(i - 1) : ~Succeeded(MemberNameAt(j))

\* indices of the members whose call succeeded, in configured order
SuccessfulIndices ==
  SelectSeq([i \in 1..NumMembers |-> i],
            LAMBDA i : Succeeded(MemberNameAt(i)))

\* C1: with at least one successful member, deliberate returns a result
\* whose all_responses has one entry per configured member, entry i being
\* member i's, with success flags equal to the injected fault pattern.
C1_ResponsesInConfiguredOrder ==
  (DeliberationDone /\ AnyMemberSucceeded) =>
     /\ final_result.kind = "dict"
     /\ Len(final_result.all_responses) = NumMembers
     /\ \A i \in 1..NumMembers :
          /\ final_result.all_responses[i].member = MemberNameAt(i)
          /\ final_result.all_responses[i].success = SuccessPattern[i]

\* three members, the second timed out, the others answered
C1_Witness ==
  /\ DeliberationDone
  /\ NumMembers = 3
  /\ SuccessPattern = <<TRUE, FALSE, TRUE>>
  /\ Reply("ollama", "Scholar", "exception") \in
        {replies[k] : k \in 1..Len(replies)}
  /\ final_result.kind = "dict"

\* C2: when the judge's call fails and a member succeeded, judge is
\* "Fallback" and final_answer is the text of the first successful member
\* in configured order.
C2_FallbackToFirstSuccessful ==
  (DeliberationDone /\ AnyMemberSucceeded /\ Settled(JudgeName)
     /\ ~Succeeded(JudgeName)) =>
     /\ final_result.kind = "dict"
     /\ final_result.judge = "Fallback"
     /\ final_result.final_answer = ModelText[MemberNameAt(FirstSuccessful)]

\* A ok, B failed, C ok, judge failed: A's text
C2_Witness ==
  /\ DeliberationDone
  /\ NumMembers = 3
  /\ SuccessPattern = <<TRUE, FALSE, TRUE>>
  /\ Settled(JudgeName) /\ ~Succeeded(JudgeName)
  /\ final_result.kind = "dict"
  /\ final_result.final_answer = "Paris"

\* C3: with no successful member deliberate ends in the "no successful
\* responses" outcome and the judge's generate is never invoked; a result
\* dict exists only with at least one successful response in it.
C3_NoSuccessNoJudge ==
  /\ (InDeliberation /\ ~AnyMemberSucceeded) =>
        /\ ~LogHas("generate", JudgeName)
        /\ ~LogHas("post", JudgeName)
        /\ final_result.kind # "dict"
  /\ (DeliberationDone /\ ~AnyMemberSucceeded) =>
        /\ final_result = None
        /\ program = "router" =>
              exec_result.answer = "Council failed to generate response"
  /\ final_result.kind = "dict" =>
        \E i \in 1..Len(final_result.all_responses) :
           final_result.all_responses[i].success

\* every one of three members failed and the call returned
C3_Witness ==
  /\ DeliberationDone
  /\ NumMembers = 3
  /\ \A i \in 1..NumMembers : Settled(MemberNameAt(i))
  /\ ~AnyMemberSucceeded
  /\ final_result = None

\* C4: with use_search = false no council-level search is issued, the
\* shared context stays empty and no response has used_search = true,
\* whatever force_search and the query are, on a council whose gateway is
\* configured.
C4_SearchDisabledIsHardOverride ==
  (InDeliberation /\ ~args.use_search /\ council.web_searcher = "key") =>
     /\ ~LogHas("search", "council")
     /\ search_context = <<>>
     /\ \A i \in 1..Len(responses) : ~responses[i].used_search

\* C5: execute_profile with enable_search = false issues no search call at
\* either tier and reports search_enabled = false, for every registered
\* profile, hint and query.
C5_RouterSearchDisabled ==
  (program = "router" /\ ~enable_search) =>
     /\ \A k \in 1..Len(log) : log[k].ev \notin {"search", "get"}
     /\ \A r \in inflight : r.svc # "brave"
     /\ search_context = <<>>
     /\ (pc = "done" /\ xargs.profile_name \in DOMAIN profiles) =>
           exec_result.search_enabled = FALSE

\* CURRENT, whose default is force_search, run to the end with search off
\* on a query that matches both lexicons
C5_Witness ==
  /\ program = "router" /\ ~enable_search
  /\ pc = "done"
  /\ xargs.profile_name = "CURRENT"
  /\ args.query = QueryLatest
  /\ args.force_search
  /\ final_result.kind = "dict"
  /\ exec_result.search_enabled = FALSE

\* C6: when a member succeeded and the judge's call succeeds, judge is the
\* judge agent's configured name and final_answer is the judge's text.
C6_JudgeSynthesis ==
  (DeliberationDone /\ AnyMemberSucceeded /\ Succeeded(JudgeName)) =>
     /\ final_result.kind = "dict"
     /\ final_result.judge = council.judge.name
     /\ final_result.final_answer = ModelText[JudgeName]

\* members [ok, failed, ok] and judge ok
C6_Witness ==
  /\ DeliberationDone
  /\ NumMembers = 3
  /\ SuccessPattern = <<TRUE, FALSE, TRUE>>
  /\ Succeeded(JudgeName)
  /\ final_result.kind = "dict"
  /\ final_result.judge = "Judge"
  /\ final_result.final_answer = "The capital of France is Paris."

\* the labelled blocks the judge must be shown: the successful members'
\* texts, in configured order, under their own names
ExpectedJudgeInput ==
  [k \in 1..Len(SuccessfulIndices) |->
     [idx |-> k, member |-> MemberNameAt(SuccessfulIndices[k]),
      response |-> ModelText[MemberNameAt(SuccessfulIndices[k])]]]

\* C7: the judge's prompt holds exactly the successful responses, in
\* configured order and labelled by member name; a failed response is not
\* in it but stays in all_responses with success = false.
C7_JudgeSeesOnlySuccesses ==
  /\ \A k \in 1..Len(log) :
        (log[k].by = JudgeName /\ log[k].ev \in {"generate", "post"}) =>
           /\ log[k].prompt.template = "judge"
           /\ log[k].prompt.responses_text = ExpectedJudgeInput
  /\ (DeliberationDone /\ final_result.kind = "dict") =>
        \A i \in 1..NumMembers :
           ~Succeeded(MemberNameAt(i)) =>
              /\ final_result.all_responses[i].member = MemberNameAt(i)
              /\ ~final_result.all_responses[i].success

\* the judge was asked after the first member had failed and a later one
\* succeeded
C7_Witness ==
  /\ DeliberationDone
  /\ NumMembers >= 2
  /\ ~Succeeded(MemberNameAt(1))
  /\ Succeeded(MemberNameAt(2))
  /\ LogHas("post", JudgeName)
  /\ final_result.kind = "dict"
  /\ ~final_result.all_responses[1].success

\* C8: every configured member is invoked and has settled before the judge
\* is invoked or an outcome is returned, whatever the other members did.
C8_AllMembersSettleFirst ==
  (InDeliberation /\ (LogHas("generate", JudgeName) \/ pc = "done")) =>
     /\ Len(responses) = NumMembers
     /\ \A i \in 1..NumMembers :
          /\ LogHas("generate", MemberNameAt(i))
          /\ LogHas("post", MemberNameAt(i))
          /\ Settled(MemberNameAt(i))

\* the first member succeeded, a later one raised, and all three settled
C8_Witness ==
  /\ DeliberationDone
  /\ NumMembers = 3
  /\ Succeeded(MemberNameAt(1))
  /\ Reply("ollama", MemberNameAt(2), "exception") \in
        {replies[k] : k \in 1..Len(replies)}
  /\ Settled(MemberNameAt(3))
  /\ LogHas("generate", JudgeName)

\* the set of members whose generate has been invoked
Invoked == {i \in 1..NumMembers : LogHas("generate", MemberNameAt(i))}

\* C9: members are invoked concurrently: a member's call is started without
\* waiting for the previous member's call to settle.
C9_MembersStartWithoutWaiting ==
  [][\A i \in 2..NumMembers :
        (InDeliberation /\ i \notin Invoked /\ i \in Invoked') =>
           ~Settled(MemberNameAt(i - 1))]_vars

\* C10: no member's generate starts while the council-level search is in
\* flight; the search has settled or was never issued, and every member is
\* handed the final shared context.
C10_SharedSearchBeforeMembers ==
  \A k \in 1..Len(log) :
     (log[k].ev = "generate" /\ log[k].by # JudgeName) =>
        /\ Request("brave", "council") \notin inflight
        /\ pc # "council_search"
        /\ LogHas("get", "council") =>
              \E j \in 1..Len(replies) :
                 replies[j].svc = "brave" /\ replies[j].by = "council"
        /\ log[k].context = search_context

\* the shared search returned results and every member was handed them
C10_Witness ==
  /\ DeliberationDone
  /\ NumMembers >= 2
  /\ LogHas("get", "council")
  /\ search_context # <<>>
  /\ \A i \in 1..NumMembers : LogHas("generate", MemberNameAt(i))

(* ------------------- search tiers, judge, dispatcher ------------------- *)
\* number of events of one kind issued by one agent in this call
CountLog(ev, by) ==
  Cardinality({k \in 1..Len(log) : log[k].ev = ev /\ log[k].by = by})

\* the search provider answered the GET of `by` with a failure
SearchFailed(by) ==
  \E k \in 1..Len(replies) :
     replies[k].svc = "brave" /\ replies[k].by = by
     /\ replies[k].outcome \in {"http", "exception"}

\* the search provider answered the GET of `by` with a result list
SearchUsable(by) ==
  \E k \in 1..Len(replies) :
     replies[k].svc = "brave" /\ replies[k].by = by
     /\ replies[k].outcome \in {"results", "noresults"}

\* the modelled queries that contain a keyword of each lexicon
CouncilLexiconQueries == {QueryLatest, QueryPrice}
MemberLexiconQueries == {QueryLatest}

\* number of search-result blocks in a context
BlockHeaders == {"Web Search Results:\n", "\n\nWeb Search Results:\n"}
Blocks(context) ==
  Cardinality({k \in 1..Len(context) : context[k] \in BlockHeaders})

\* C11: when use_search and (force_search or a lexicon match) hold on a
\* council with a configured gateway, the shared search is issued exactly
\* once in the deliberation and every member is handed the same context.
C11_SharedSearchOnce ==
  (InDeliberation /\ args.use_search /\ council.web_searcher = "key"
     /\ (args.force_search \/ args.query \in CouncilLexiconQueries)) =>
     /\ CountLog("search", "council") = 1
     /\ CountLog("get", "council") = 1
     /\ \A k \in 1..Len(log) :
          (log[k].ev = "generate" /\ log[k].by # JudgeName) =>
             log[k].context = search_context

\* forced search on a query outside the lexicon, three members served
C11_Witness ==
  /\ DeliberationDone
  /\ NumMembers = 3
  /\ args.use_search /\ args.force_search
  /\ args.query = QueryPython
  /\ CountLog("get", "council") = 1
  /\ search_context # <<>>
  /\ \A i \in 1..NumMembers : LogHas("generate", MemberNameAt(i))

\* C12: the prompt sent to the model never holds two search-result blocks,
\* also when the council-level search and the member's own both returned
\* results.
C12_SearchTextAtMostOnce ==
  \A k \in 1..Len(log) : log[k].ev = "post" => Blocks(log[k].context) <= 1

\* no agent or council of this call holds a search credential
NoCredential ==
  /\ council.web_searcher # "key"
  /\ council.judge.web_searcher # "key"
  /\ \A i \in 1..NumMembers : council.members[i].web_searcher # "key"

\* C13: without a search credential no search text reaches any prompt, the
\* shared context stays empty and no response has used_search = true.
C13_MissingCredentialSkipsSearch ==
  (InDeliberation /\ NoCredential) =>
     /\ search_context = <<>>
     /\ \A k \in 1..Len(log) : log[k].ev = "post" => log[k].context = <<>>
     /\ \A i \in 1..Len(responses) : ~responses[i].used_search

SomeSearchFailed ==
  \E k \in 1..Len(replies) :
     replies[k].svc = "brave" /\ replies[k].outcome \in {"http", "exception"}

\* C14: a failed search adds no text, at either tier, and the deliberation
\* goes on: every member is still called with the context that remains and
\* the outcome follows from the inference results alone.
C14_SearchFailureIsSoft ==
  /\ (InDeliberation /\ SearchFailed("council")) => search_context = <<>>
  /\ \A k \in 1..Len(log) :
        (log[k].ev = "post" /\ log[k].by # JudgeName
           /\ SearchFailed(log[k].by)) =>
           log[k].context = search_context
  /\ \A i \in 1..Len(responses) :
        SearchFailed(responses[i].member) => ~responses[i].used_search
  /\ (DeliberationDone /\ SomeSearchFailed) =>
        /\ \A i \in 1..NumMembers : LogHas("post", MemberNameAt(i))
        /\ (final_result.kind = "dict") = AnyMemberSucceeded
        /\ final_result.kind = "dict" =>
              /\ final_result.judge =
                   IF Succeeded(JudgeName) THEN JudgeName ELSE "Fallback"
              /\ \A i \in 1..NumMembers :
                   final_result.all_responses[i].success = SuccessPattern[i]

\* the shared search hit an HTTP error, a member's own search timed out,
\* all three members were called and the judge synthesized
C14_Witness ==
  /\ DeliberationDone
  /\ NumMembers = 3
  /\ Reply("brave", "council", "http") \in
        {replies[k] : k \in 1..Len(replies)}
  /\ Reply("brave", "Scholar", "exception") \in
        {replies[k] : k \in 1..Len(replies)}
  /\ \A i \in 1..NumMembers : LogHas("post", MemberNameAt(i))
  /\ final_result.kind = "dict"
  /\ final_result.judge = JudgeName

\* C15: used_search = true only for a member that has a gateway, was
\* allowed to search, got a query of the member lexicon and whose own
\* search returned a usable result; shared context alone never sets it.
C15_UsedSearchOnlyAfterOwnSearch ==
  \A i \in 1..Len(responses) :
     responses[i].used_search =>
        /\ council.members[i].web_searcher # "none"
        /\ args.use_search
        /\ args.query \in MemberLexiconQueries
        /\ SearchUsable(responses[i].member)

\* C16: once a member has succeeded, synthesis issues exactly one inference
\* call for the judge; the judge never searches, whatever its gateway, the
\* flags and the query, and works on the shared context only.
C16_JudgeOneCallNoSearch ==
  /\ CountLog("post", JudgeName) <= 1
  /\ ~LogHas("search", JudgeName)
  /\ ~LogHas("get", JudgeName)
  /\ Request("brave", JudgeName) \notin inflight
  /\ (InDeliberation /\ AnyMemberSucceeded
        /\ (LogHas("generate", JudgeName) \/ pc = "done")) =>
        /\ CountLog("generate", JudgeName) = 1
        /\ CountLog("post", JudgeName) = 1
        /\ \A k \in 1..Len(log) :
             log[k].by = JudgeName =>
                /\ log[k].context = search_context
                /\ ~log[k].allow_search

\* a judge with a keyed gateway, search enabled, a query of both lexicons
C16_Witness ==
  /\ DeliberationDone
  /\ council.judge.web_searcher = "key"
  /\ args.use_search
  /\ args.query = QueryLatest
  /\ search_context # <<>>
  /\ CountLog("post", JudgeName) = 1
  /\ final_result.kind = "dict"

\* C17: with no successful member the caller of deliberate and of
\* execute_profile receives an explicit failure value, never a null and
\* never something shaped like a normal answer.
C17_ExplicitFailureOutcome ==
  (DeliberationDone /\ ~AnyMemberSucceeded) =>
     /\ final_result # None
     /\ final_result.kind = "failure"
     /\ program = "router" => exec_result.kind = "failure"

\* C18: the result of execute_profile for a council profile has a judge
\* field: the judge's name after a synthesis, "Fallback" after a judge
\* failure.
C18_ExecuteResultHasJudge ==
  (program = "router" /\ DeliberationDone /\ final_result.kind = "dict") =>
     /\ "judge" \in DOMAIN exec_result
     /\ exec_result.judge =
          IF Succeeded(JudgeName) THEN JudgeName ELSE "Fallback"

SingleProfiles == {"SIMPLE", "CODE", "CREATIVE"}

\* what each single-agent profile is registered with
SingleModel ==
  [SIMPLE |-> "QuickAnswer", CODE |-> "CodeExpert", CREATIVE |-> "Creator"]

FixedSystemPrompt ==
  [SIMPLE |-> <<>>, CODE |-> <<"You are an expert programmer.">>,
   CREATIVE |-> <<"You are a creative writer.">>]

\* C19: a single-agent profile issues exactly one inference call, with the
\* profile's system prompt and the query, and nothing else: no council
\* member, judge or search call.
C19_SingleAgentOneCall ==
  (program = "router" /\ xargs.profile_name \in SingleProfiles
     /\ pc \in {"single_post", "done"}) =>
     /\ Len(log) = 1
     /\ log[1].ev = "chat"
     /\ log[1].by = SingleModel[xargs.profile_name]
     /\ log[1].context = FixedSystemPrompt[xargs.profile_name]
     /\ log[1].prompt = QueryPrompt(xargs.query)
     /\ inflight \subseteq
          {Request("ollama", SingleModel[xargs.profile_name])}
     /\ council = NoCouncil
     /\ pc = "done" => (Len(replies) = 1 /\ inflight = {})

\* CODE answered a query of both lexicons with the search hint set
C19_Witness ==
  /\ program = "router" /\ enable_search
  /\ pc = "done"
  /\ xargs.profile_name = "CODE"
  /\ xargs.query = QueryLatest
  /\ xargs.needs_search
  /\ Len(log) = 1
  /\ exec_result.answer = "print('Paris')"

\* C20: with search enabled CURRENT always issues the shared search;
\* RESEARCH issues it exactly when the hint is set or the query matches
\* the council lexicon.
C20_CurrentForcesSharedSearch ==
  (program = "router" /\ enable_search /\ InDeliberation) =>
     /\ xargs.profile_name = "CURRENT" => CountLog("get", "council") = 1
     /\ xargs.profile_name = "RESEARCH" =>
          (LogHas("get", "council") <=>
             (xargs.needs_search \/ xargs.query \in CouncilLexiconQueries))

\* CURRENT on a query outside the lexicon, without the hint
C20_Witness ==
  /\ program = "router" /\ enable_search
  /\ DeliberationDone
  /\ xargs.profile_name = "CURRENT"
  /\ xargs.query = QueryPython
  /\ ~xargs.needs_search
  /\ LogHas("get", "council")

(* -------------------- classification and dispatch ---------------------- *)
\* analyze_query has returned and its locals are still in scope
Classified == analysis.outcome \notin {"none", "pending"}

\* the inference service did not answer the classifier
ServiceUnavailable == analysis.outcome \in {"http", "exception"}

\* the profile the keyword rules give each modelled query, worked out by
\* hand from the keyword lists
ExpectedFallbackProfile(query) ==
  CASE query = QueryPython -> "CODE"
    [] query = QueryLatest -> "CURRENT"
    [] query = QueryPrice -> "SIMPLE"
    [] query = QueryDebug -> "CODE"
    [] query = QueryCodeTemporal -> "CODE"
    [] query = QueryTemporalCreative -> "CURRENT"
    [] query = QueryResearchShort -> "SIMPLE"
    [] query = QueryResearchTen -> "SIMPLE"
    [] query = QueryResearchLong -> "RESEARCH"
    [] query = QueryResearchCreative -> "CREATIVE"
    [] query = QueryCreative -> "CREATIVE"

\* execute_profile has been entered for the query in progress
Executing == xargs.profile_name # ""

\* C21: the classifier is called exactly when the requested profile is
\* AUTO: one classification call, made before execution, whose profile is
\* the one executed; an explicitly selected profile is executed without
\* any classification call.
C21_ClassifierOnlyOnAuto ==
  /\ current_profile = "AUTO" =>
       /\ Len(clog) = 1
       /\ clog[1].ev = "chat" /\ clog[1].by = "Router"
       /\ pc = "classify" => (~Executing /\ log = <<>>)
       /\ Executing =>
            /\ routing # NoRouting
            /\ Request("ollama", "Router") \notin inflight
            /\ xargs.profile_name = routing.profile
  /\ current_profile \notin {"", "AUTO"} =>
       /\ clog = <<>>
       /\ routing = NoRouting
       /\ pc \notin {"classify", "routed"}
       /\ Executing
       /\ \/ xargs.profile_name = current_profile
          \/ current_profile = "code" /\ xargs.profile_name = "CODE"

\* AUTO was classified as CURRENT and the council of CURRENT answered
C21_Witness ==
  /\ current_profile = "AUTO"
  /\ Len(clog) = 1
  /\ routing # NoRouting
  /\ xargs.profile_name = "CURRENT"
  /\ DeliberationDone
  /\ final_result.kind = "dict"

\* C22: with the inference service unavailable the classification is a
\* function of the query text alone, and "debug this function" is CODE
\* with needs_search = false.
C22_FallbackDeterministic ==
  (Classified /\ ServiceUnavailable) =>
     /\ routing # NoRouting
     /\ routing.profile = ExpectedFallbackProfile(analysis.query)
     /\ analysis.query = QueryDebug =>
          (routing.profile = "CODE" /\ ~routing.needs_search)

\* the classifier's request timed out on "debug this function"
C22_Witness ==
  /\ Classified
  /\ analysis.outcome = "exception"
  /\ analysis.query = QueryDebug
  /\ routing.profile = "CODE"
  /\ ~routing.needs_search

\* C23: the keyword rules apply in the order code, current, research
\* (keyword and more than 10 words), creative, default SIMPLE, the first
\* match deciding; needs_search is true exactly for CURRENT.
C23_FallbackPriority ==
  (Classified /\ ServiceUnavailable) =>
     LET q == analysis.query
         code == any_in(code_keywords, Lower(q))
         current == any_in(current_keywords, Lower(q))
         research == any_in(research_keywords, Lower(q))
                       /\ word_count(q) > 10
         creative == any_in(creative_keywords, Lower(q))
     IN /\ code => routing.profile = "CODE"
        /\ (~code /\ current) => routing.profile = "CURRENT"
        /\ (~code /\ ~current /\ research) => routing.profile = "RESEARCH"
        /\ (~code /\ ~current /\ ~research /\ creative) =>
              routing.profile = "CREATIVE"
        /\ (~code /\ ~current /\ ~research /\ ~creative) =>
              routing.profile = "SIMPLE"
        /\ routing.needs_search = (routing.profile = "CURRENT")
        /\ q = QueryCodeTemporal => routing.profile = "CODE"
        /\ q = QueryTemporalCreative => routing.profile = "CURRENT"
        /\ q \in {QueryResearchShort, QueryResearchTen} =>
              routing.profile # "RESEARCH"
        /\ q = QueryResearchLong => routing.profile = "RESEARCH"

\* a query with a code and a temporal keyword fell back to CODE
C23_Witness ==
  /\ Classified
  /\ analysis.outcome = "http"
  /\ analysis.query = QueryCodeTemporal
  /\ routing.profile = "CODE"
  /\ ~routing.needs_search

\* C24: classification always returns one of the five profiles, SIMPLE
\* when the PROFILE line is missing or names something else, so the
\* profile handed to execute_profile is never unknown.
C24_ProfileAlwaysKnown ==
  /\ Classified => routing.profile \in DOMAIN profiles
  /\ (current_profile = "AUTO" /\ Executing) =>
       xargs.profile_name \in DOMAIN profiles

\* the reply has no line that could be read as one of the three labels
ZeroRecognizedLines ==
  \/ analysis.outcome = "empty"
  \/ analysis.outcome = "ok" /\ analysis.result.response = TextNoLabels

\* C25: a successful inference call whose text has no recognized line is
\* classified by the keyword rules, as a failed call is.
C25_NoRecognizedLineFallsBack ==
  (Classified /\ ZeroRecognizedLines) =>
     /\ routing.profile = ExpectedFallbackProfile(analysis.query)
     /\ routing.needs_search = (routing.profile = "CURRENT")

\* C26: the labels are matched without regard to case and to surrounding
\* whitespace: "profile: code" and "  Profile: CODE" give CODE.
C26_LabelsCaseInsensitive ==
  /\ (Classified /\ analysis.outcome = "ok"
        /\ analysis.result.response \in {TextLowerLabels, TextIndented}) =>
        routing.profile = "CODE"
  /\ (Classified /\ analysis.outcome = "ok"
        /\ analysis.result.response = TextLowerLabels) =>
        routing.needs_search

\* analyze_query returned a classification
HasClassification ==
  /\ routing # NoRouting
  /\ routing.kind = "dict"
  /\ routing.profile \in DOMAIN ProfileText \cup {"OTHER"}
  /\ routing.needs_search \in BOOLEAN

\* C27: for every query and every outcome of the inference call the
\* classification ends with a result, provided the call itself settles.
C27_ClassifyAlwaysReturns ==
  /\ [](Classified => HasClassification)
  /\ (pc = "classify") ~> (Classified /\ HasClassification)

\* an empty reply on a long query still gave a classification
C27_Witness ==
  /\ Classified
  /\ analysis.outcome = "empty"
  /\ analysis.query = QueryResearchLong
  /\ HasClassification
  /\ pc = "done"

\* the outcome of the last inference request of `by`
FailedReply(by) ==
  \E k \in 1..Len(replies) :
     replies[k].svc = "ollama" /\ replies[k].by = by
     /\ replies[k].outcome \in {"empty", "http", "exception"}

\* C28: both inference clients return a tagged result, and a transport
\* failure, a non-2xx status and a 200 without content all have
\* success = false.
C28_EmptyReplyIsFailure ==
  /\ \A i \in 1..Len(responses) :
        FailedReply(responses[i].member) => ~responses[i].success
  /\ (Classified /\ analysis.outcome \in {"empty", "http", "exception"}) =>
        ~analysis.result.success

\* number of replies the inference service gave to `by`
InferenceReplies(by) ==
  Cardinality({k \in 1..Len(replies) :
                 replies[k].svc = "ollama" /\ replies[k].by = by})

\* C29: no retry: in one deliberation each member's generate is invoked
\* once and gives one response, the judge's at most once, and a generate
\* issues at most one inference request, failed or not.
C29_NoRetry ==
  InDeliberation =>
     /\ \A i \in 1..NumMembers :
          /\ CountLog("generate", MemberNameAt(i)) <= 1
          /\ CountLog("post", MemberNameAt(i))
                <= CountLog("generate", MemberNameAt(i))
          /\ InferenceReplies(MemberNameAt(i)) <= 1
     /\ CountLog("generate", JudgeName) <= 1
     /\ CountLog("post", JudgeName) <= CountLog("generate", JudgeName)
     /\ InferenceReplies(JudgeName) <= 1
     /\ Len(responses) <= NumMembers
     /\ DeliberationDone =>
          /\ Len(responses) = NumMembers
          /\ \A i \in 1..NumMembers :
               /\ CountLog("generate", MemberNameAt(i)) = 1
               /\ responses[i].member = MemberNameAt(i)

\* a member's call and the judge's call both failed, none was repeated
C29_Witness ==
  /\ DeliberationDone
  /\ NumMembers = 3
  /\ Reply("ollama", "Sage", "http") \in
        {replies[k] : k \in 1..Len(replies)}
  /\ Reply("ollama", JudgeName, "exception") \in
        {replies[k] : k \in 1..Len(replies)}
  /\ CountLog("generate", "Sage") = 1
  /\ CountLog("generate", JudgeName) = 1
  /\ final_result.kind = "dict"

\* the phases of one query, in order
C30_Order ==
  /\ pc \in {"classify", "routed"} =>
       /\ current_profile \in {"", "AUTO"}
       /\ ~Executing /\ log = <<>> /\ replies = <<>>
       /\ final_result = Pending /\ exec_result = Pending
  /\ (current_profile = "AUTO" /\ (Executing \/ log # <<>>)) =>
       /\ routing # NoRouting
       /\ Request("ollama", "Router") \notin inflight
  /\ \A k \in 1..Len(log) :
       (log[k].ev = "generate" /\ log[k].by = JudgeName) =>
          \A i \in 1..NumMembers :
             /\ \E j \in 1..(k - 1) :
                   log[j].ev = "post" /\ log[j].by = MemberNameAt(i)
             /\ Settled(MemberNameAt(i))
  /\ (final_result # Pending \/ exec_result # Pending) =>
       /\ pc = "done"
       /\ inflight = {}
       /\ LogHas("post", JudgeName) => Settled(JudgeName)

\* nothing follows a delivered result but the next query
C30_Terminal ==
  pc = "done" =>
     (pc' = "idle" /\ log' = <<>> /\ clog' = <<>> /\ inflight' = {})

\* C30: a query goes through classification (only for AUTO), execution,
\* synthesis (only for council profiles) and ends: classification comes
\* before every member or single-agent call, the member calls before the
\* judge's, the judge's before the result, and nothing is called after
\* the result.
C30_PhaseOrder == []C30_Order /\ [][C30_Terminal]_vars

\* a classified query answered by the judge of its council
C30_Witness ==
  /\ current_profile = "AUTO"
  /\ routing # NoRouting
  /\ DeliberationDone
  /\ Succeeded(JudgeName)
  /\ exec_result.kind = "dict"
  /\ inflight = {}

(* --------------------------- termination ------------------------------- *)
\* a call of deliberate or execute_profile is under way
CallInProgress == pc \notin {"idle", "done"}

\* the call has ended with an answer or with "no successful responses"
Terminal ==
  /\ pc = "done"
  /\ inflight = {}
  /\ \/ exec_result # Pending
     \/ final_result # Pending

\* C31: when every inference and search request settles, every call of
\* execute_profile or deliberate reaches a terminal state, whatever the
\* member, judge and search failures.
C31_CallsTerminate == CallInProgress ~> Terminal

\* a deliberation ended although every search and every member failed
C31_Witness ==
  /\ Terminal
  /\ DeliberationDone
  /\ NumMembers = 3
  /\ SearchFailed("council")
  /\ ~AnyMemberSucceeded
  /\ final_result = None

SingleCallFailed ==
  \E k \in 1..Len(replies) :
     replies[k].svc = "ollama" /\ replies[k].outcome \in {"http", "exception"}

\* C33: when the one inference call of a single-agent profile fails,
\* execute_profile returns a result of the normal shape whose answer is
\* the failure text; nothing in it marks the failure.
C33_SingleFailureLooksNormal ==
  (program = "router" /\ pc = "done"
     /\ xargs.profile_name \in SingleProfiles /\ SingleCallFailed) =>
     /\ exec_result.kind = "dict"
     /\ DOMAIN exec_result = {"kind", "answer", "profile", "search_enabled"}
     /\ exec_result.answer \in {"Error: HTTP 500", "Error: timeout"}
     /\ exec_result.profile = xargs.profile_name

\* CODE answered with the text of an HTTP failure
C33_Witness ==
  /\ program = "router" /\ pc = "done"
  /\ xargs.profile_name = "CODE"
  /\ Reply("ollama", "CodeExpert", "http") \in
        {replies[k] : k \in 1..Len(replies)}
  /\ exec_result.answer = "Error: HTTP 500"

RegisteredProfiles == {"SIMPLE", "CODE", "CREATIVE", "RESEARCH", "CURRENT"}

C34_UnknownAnswer ==
  (program = "router" /\ pc = "done" /\ Executing
     /\ xargs.profile_name \notin RegisteredProfiles) =>
     /\ exec_result.answer = "Unknown profile"
     /\ exec_result.timing =
          [total |-> 0, preprocessing |-> 0, execution |-> 0]
     /\ log = <<>> /\ inflight = {} /\ replies = <<>>
     /\ council = NoCouncil

\* a call that returns at once leaves the manager as it was
C34_ManagerUnchanged ==
  (pc = "idle" /\ pc' = "done") => enable_search' = enable_search

\* C34: for a profile that is not registered execute_profile answers
\* "Unknown profile" with all timings 0, calls neither the inference
\* service nor the search provider and leaves the manager unchanged.
C34_UnknownProfile == []C34_UnknownAnswer /\ [][C34_ManagerUnchanged]_vars

\* BOGUS was asked for with the search hint set
C34_Witness ==
  /\ program = "router" /\ pc = "done"
  /\ xargs.profile_name = "BOGUS"
  /\ xargs.needs_search
  /\ exec_result.answer = "Unknown profile"
  /\ log = <<>>

\* C35: the member lexicon is part of the council lexicon; with search
\* enabled and a gateway shared by council and members no member searches
\* unless the shared search was issued, and answered, before.
C35_MemberSearchImpliesShared ==
  /\ MemberKeywords \subseteq CouncilKeywords
  /\ (InDeliberation /\ args.use_search /\ council.web_searcher = "key") =>
       \A k \in 1..Len(log) :
          (log[k].ev = "search" /\ log[k].by # "council") =>
             /\ \E j \in 1..(k - 1) :
                   log[j].ev = "search" /\ log[j].by = "council"
             /\ \E r \in 1..Len(replies) :
                   replies[r].svc = "brave" /\ replies[r].by = "council"

\* a member searched for a query of both lexicons after the shared search
C35_Witness ==
  /\ DeliberationDone
  /\ args.use_search /\ ~args.force_search
  /\ council.web_searcher = "key"
  /\ args.query = QueryLatest
  /\ LogHas("get", "council")
  /\ \E i \in 1..NumMembers : LogHas("get", MemberNameAt(i))

\* C36: once the front end is mounted, and after any sequence of toggles,
\* AICouncilTUI.search_enabled, ProfileManager.enable_search and the
\* persisted search.enabled are equal, and a call runs under the value in
\* force when it started: with the switch off the council has no searcher,
\* deliberate is told not to search and no search request is made; with the
\* switch on the council holds the searcher and the CURRENT profile searches.
C36_SearchSwitchInForce ==
  /\ search_enabled = enable_search
  /\ config_get(config, TRUE) = search_enabled
  /\ InDeliberation =>
       /\ args.use_search = search_enabled
       /\ (council.web_searcher = "key") <=> search_enabled
       /\ \A i \in 1..NumMembers :
            (council.members[i].web_searcher = "key") <=> search_enabled
  /\ ~search_enabled =>
       /\ \A k \in 1..Len(log) : log[k].ev \notin {"search", "get"}
       /\ ~xargs.needs_search
  /\ (search_enabled /\ InDeliberation /\ xargs.profile_name = "CURRENT") =>
       LogHas("get", "council")

\* search was switched off and on again, and the call in progress searched
C36_Witness ==
  /\ toggled_off
  /\ search_enabled
  /\ config = config_set(TRUE)
  /\ InDeliberation
  /\ LogHas("get", "council")

\* the user messages of a chat that are not empty
UserMessages(chat) ==
  {i \in 1..Len(chat.messages) :
     chat.messages[i].role = "user" /\ Len(chat.messages[i].content) > 0}

\* C37: after any sequence of add_message calls on a chat created with the
\* default title, the title is the one derived from the first non-empty user
\* message (its first 50 characters, plus "..." when it is longer), and the
\* default title while there is no such message; so no later call changes it.
C37_TitleGeneratedOnce ==
  LET first == CHOOSE i \in UserMessages(current_chat) :
                 \A j \in UserMessages(current_chat) : i <= j
  IN IF UserMessages(current_chat) = {}
     THEN current_chat.title = DefaultTitle
     ELSE current_chat.title = title_of(current_chat.messages[first].content)

\* the chat the file of chat_id is loaded as has the fields of the file
SameAsFile(chat, data) ==
  /\ chat.chat_id = data.chat_id
  /\ chat.title = data.title
  /\ chat.created_at = data.created_at
  /\ chat.updated_at = data.updated_at
  /\ chat.metadata = data.metadata
  /\ Len(chat.messages) = Len(data.messages)
  /\ \A i \in 1..Len(data.messages) :
       /\ chat.messages[i].role = data.messages[i].role
       /\ chat.messages[i].content = data.messages[i].content
       /\ chat.messages[i].timestamp = data.messages[i].timestamp
       /\ chat.messages[i].metadata = data.messages[i].metadata

\* C38: save_chat followed by load_chat of the same chat_id is a round
\* trip. Saving the open chat and loading it back gives a chat equal to it;
\* every saved file loads as a chat with the file's chat_id, title,
\* created_at, updated_at, metadata and messages, and saving that chat again
\* leaves the file as it was; right after a load the open chat is the one
\* its file holds.
C38_SaveLoadRoundTrip ==
  /\ load_chat(save_chat(files, current_chat), current_chat.chat_id, now)
       = current_chat
  /\ \A id \in list_chats(files) :
       LET chat == load_chat(files, id, now)
       IN /\ SameAsFile(chat, files[id])
          /\ save_chat(files, chat) = files
  /\ last_action = "load" =>
       /\ current_chat.chat_id \in list_chats(files)
       /\ to_dict(current_chat) = files[current_chat.chat_id]

\* a chat with a question and its timed answer was loaded from its file,
\* later than it was created and while another chat is on file
C38_Witness ==
  /\ last_action = "load"
  /\ Len(current_chat.messages) >= 2
  /\ \E i \in 1..Len(current_chat.messages) :
       current_chat.messages[i].metadata # EmptyDict
  /\ current_chat.metadata.total_time > 0
  /\ current_chat.updated_at < now
  /\ list_chats(files) # {current_chat.chat_id}

\* C39: a chat the user deleted from the saved-chat list stays deleted for
\* the rest of the session: list_chats does not contain its chat_id and
\* load_chat of it returns None, whatever the user did afterwards.
C39_DeletedStaysDeleted ==
  \A id \in deleted :
    /\ id \notin list_chats(files)
    /\ load_chat(files, id, now) = NoChat

=============================================================================
